---- MODULE Spec2Model ----
(***************************************************************************)
(* Subtitle extraction pipeline of textlingo-desktop                        *)
(* (src-tauri/src/subtitle_extraction.rs): duration probe, mode selection,  *)
(* chunk planning, pairwise concurrent window transcription with the retry  *)
(* loop, and the sort + fuzzy deduplication merge.                          *)
(*                                                                         *)
(* Times are whole seconds.  Option<T> is a sequence: <<>> is None and      *)
(* <<x>> is Some(x).  Strings that are compared by characters are tuples of *)
(* one-character strings.                                                   *)
(***************************************************************************)
EXTENDS Integers, Sequences, FiniteSets, TLC

VARIABLES
    pc,               \* position of extract_subtitles / its callee
    backend,          \* input: provider + model the caller selected
    probe,            \* input: what the FFmpeg duration probe yields
    total_duration,   \* Option: the probed duration
    mode,             \* "none" | "SingleShot" | "Chunked" | "WholeVideo"
    events,           \* progress events emitted so far, in order
    chunk_starts,     \* planned start offsets (1-based sequence of the 0-based Vec)
    i,                \* loop index of extract_subtitles_chunked (0-based)
    completed_chunks, \* counter of extract_subtitles_chunked
    all_segments,     \* accumulator of extract_subtitles_chunked
    windows,          \* per window: state of one extract_and_transcribe_segment call
    files,            \* temporary files present on disk
    kimi_calls,       \* backend calls issued by extract_subtitles_with_kimi
    result,           \* what extract_subtitles returned
    returned,         \* windows of the current round, in the order they returned
    m_pc,             \* merge engine applied to an arbitrary list: position
    m_in,             \* ... its input
    m_out,            \* ... its output
    m_again,          \* ... the output of applying it to m_out
    p_pc,             \* response parser applied to an arbitrary text: position
    p_content,        \* ... the backend's text
    p_json,           \* ... what extract_json returned for it
    p_result,         \* ... what parse_transcription_response returned for it
    r_pc,             \* repair_json applied to an arbitrary text: position
    r_text,           \* ... the text given to it
    r_out,            \* ... the text it returned
    q_pc,             \* build_due_vocabulary_queue applied to arbitrary arguments: position
    q_args,           \* ... its arguments
    q_out             \* ... what it returned

vars == <<pc, backend, probe, total_duration, mode, events, chunk_starts, i,
          completed_chunks, all_segments, windows, files, kimi_calls, result,
          returned, m_pc, m_in, m_out, m_again, p_pc, p_content, p_json,
          p_result, r_pc, r_text, r_out, q_pc, q_args, q_out>>

pipeVars == <<pc, backend, probe, total_duration, mode, events, chunk_starts, i,
              completed_chunks, all_segments, windows, files, kimi_calls, result,
              returned>>

mergeVars == <<m_pc, m_in, m_out, m_again>>

parseVars == <<p_pc, p_content, p_json, p_result>>

repairVars == <<r_pc, r_text, r_out>>

queueVars == <<q_pc, q_args, q_out>>

----------------------------------------------------------------------------
(* Option<T> *)

None == <<>>

Some(x) == <<x>>

IsSome(o) == o # <<>>

unwrap_or(o, d) == IF o = <<>> THEN d ELSE o[1]

Max(a, b) == IF a >= b THEN a ELSE b

Min(a, b) == IF a <= b THEN a ELSE b

Abs(x) == IF x < 0 THEN -x ELSE x

----------------------------------------------------------------------------
(* Program constants *)

CHUNK_THRESHOLD_SECONDS == 600

CHUNK_DURATION == 600

OVERLAP == 30

MAX_RETRIES == 3

RETRY_DELAY_SECS == 2

----------------------------------------------------------------------------
(* Texts of segments: tuples of characters *)

TextHello == <<"a", "b", "c", "d", "e">>

TextHelloPadded == <<" ", "a", "b", "c", "d", "e">>

TextHalf == <<"a", "b", "c", "x", "y">>

TextOther == <<"z", "z">>

\* TranscriptionSegment
Seg(st, et, text) ==
    [speaker |-> None, content |-> text, start_time |-> st, end_time |-> et]

----------------------------------------------------------------------------
(* text_similarity: normalised longest common subsequence *)

\* char::is_white_space for the characters the texts are made of
IsWhitespace(c) == c \in {" ", "\n", "\t", "\r"}

RECURSIVE TrimStart(_)
TrimStart(s) ==
    IF s # <<>> /\ IsWhitespace(Head(s)) THEN TrimStart(Tail(s)) ELSE s

RECURSIVE TrimEnd(_)
TrimEnd(s) ==
    IF s # <<>> /\ IsWhitespace(s[Len(s)])
    THEN TrimEnd(SubSeq(s, 1, Len(s) - 1))
    ELSE s

trim(s) == TrimEnd(TrimStart(s))

\* The inner loop "for j in 1..=n" for one character ac of a: fills curr[j..n].
RECURSIVE LcsInner(_, _, _, _, _)
LcsInner(ac, b, prev, curr, j) ==
    IF j > Len(b) THEN curr
    ELSE LET v == IF ac = b[j] THEN prev[j - 1] + 1
                  ELSE Max(prev[j], curr[j - 1])
         IN  LcsInner(ac, b, prev, [curr EXCEPT ![j] = v], j + 1)

\* The outer loop "for i in 1..=m" with the two rolling rows; returns prev.
RECURSIVE LcsOuter(_, _, _, _)
LcsOuter(a, b, prev, k) ==
    IF k > Len(a) THEN prev
    ELSE LcsOuter(a, b,
                  LcsInner(a[k], b, prev, [j \in 0..Len(b) |-> 0], 1),
                  k + 1)

\* A ratio num/den with den > 0.
Ratio(n, d) == [num |-> n, den |-> d]

\* r > t/10
RatioGtTenths(r, t) == 10 * r.num > t * r.den

text_similarity(a0, b0) ==
    LET a == trim(a0)
        b == trim(b0)
    IN  IF a = <<>> /\ b = <<>> THEN Ratio(1, 1)
        ELSE IF a = <<>> \/ b = <<>> THEN Ratio(0, 1)
        ELSE IF a = b THEN Ratio(1, 1)
        ELSE Ratio(LcsOuter(a, b, [j \in 0..Len(b) |-> 0], 1)[Len(b)],
                   Max(Len(a), Len(b)))

----------------------------------------------------------------------------
(* deduplicate_segments *)

\* overlap_duration / seg_duration of the candidate seg against existing,
\* in tenths of a second so that the 0.1 s floor of seg_duration is exact.
overlap_ratio(seg, existing) ==
    LET seg_start == unwrap_or(seg.start_time, 0)
        ex_start  == unwrap_or(existing.start_time, 0)
        seg_end   == unwrap_or(seg.end_time, seg_start)
        ex_end    == unwrap_or(existing.end_time, ex_start)
        overlap_start == Max(seg_start, ex_start)
        overlap_end   == Min(seg_end, ex_end)
        overlap_duration == Max(overlap_end - overlap_start, 0)
        seg_duration10   == Max(10 * (seg_end - seg_start), 1)
    IN  Ratio(10 * overlap_duration, seg_duration10)

start_delta(seg, existing) ==
    Abs(unwrap_or(seg.start_time, 0) - unwrap_or(existing.start_time, 0))

\* Mutant: condition 1 (overlap > 30% and similarity > 60%) is left out.
is_duplicate_of_no_overlap_rule(seg, existing) ==
    IF start_delta(seg, existing) > 15 THEN FALSE
    ELSE start_delta(seg, existing) < 5
         /\ RatioGtTenths(text_similarity(seg.content, existing.content), 5)

\* Mutant: condition 2 (start within 5 s and similarity > 50%) is left out.
is_duplicate_of_no_start_rule(seg, existing) ==
    IF start_delta(seg, existing) > 15 THEN FALSE
    ELSE RatioGtTenths(overlap_ratio(seg, existing), 3)
         /\ RatioGtTenths(text_similarity(seg.content, existing.content), 6)

\* Mutant: the 15 s pre-filter is left out, every accepted segment is compared.
is_duplicate_of_unfiltered(seg, existing) ==
    \/ /\ RatioGtTenths(overlap_ratio(seg, existing), 3)
       /\ RatioGtTenths(text_similarity(seg.content, existing.content), 6)
    \/ /\ start_delta(seg, existing) < 5
       /\ RatioGtTenths(text_similarity(seg.content, existing.content), 5)

\* The closure given to result.iter().any(..) for the candidate seg.
is_duplicate_of(seg, existing) ==
    IF start_delta(seg, existing) > 15 THEN FALSE
    ELSE \/ /\ RatioGtTenths(overlap_ratio(seg, existing), 3)
            /\ RatioGtTenths(text_similarity(seg.content, existing.content), 6)
         \/ /\ start_delta(seg, existing) < 5
            /\ RatioGtTenths(text_similarity(seg.content, existing.content), 5)

\* The loop "for seg in segments" with the result built so far.
RECURSIVE DedupLoop(_, _)
DedupLoop(rest, res) ==
    IF rest = <<>> THEN res
    ELSE LET seg == Head(rest)
             is_duplicate == \E k \in 1..Len(res) : is_duplicate_of(seg, res[k])
         IN  DedupLoop(Tail(rest), IF is_duplicate THEN res ELSE Append(res, seg))

\* Mutant: on a duplicate the newer segment replaces the one already kept.
RECURSIVE DedupLoopLaterWins(_, _)
DedupLoopLaterWins(rest, res) ==
    IF rest = <<>> THEN res
    ELSE LET seg == Head(rest)
             dups == {k \in 1..Len(res) : is_duplicate_of(seg, res[k])}
         IN  DedupLoopLaterWins(Tail(rest),
                 IF dups = {} THEN Append(res, seg)
                 ELSE LET first == CHOOSE k \in dups : \A l \in dups : k <= l
                      IN  [res EXCEPT ![first] = seg])

deduplicate_segments_later_wins(segments) == DedupLoopLaterWins(segments, <<>>)

deduplicate_segments(segments) == DedupLoop(segments, <<>>)

\* all_segments.retain(|s| s.start_time.is_some() && s.end_time.is_some())
RECURSIVE retain_timestamped(_)
retain_timestamped(segs) ==
    IF segs = <<>> THEN <<>>
    ELSE IF IsSome(Head(segs).start_time) /\ IsSome(Head(segs).end_time)
         THEN <<Head(segs)>> \o retain_timestamped(Tail(segs))
         ELSE retain_timestamped(Tail(segs))

\* Stable insertion of x into a list sorted by start_time: x goes after every
\* element whose key is <= its own.
RECURSIVE InsertByStart(_, _)
InsertByStart(sorted, x) ==
    IF sorted = <<>> THEN <<x>>
    ELSE IF unwrap_or(Head(sorted).start_time, 0) <= unwrap_or(x.start_time, 0)
         THEN <<Head(sorted)>> \o InsertByStart(Tail(sorted), x)
         ELSE <<x>> \o sorted

\* all_segments.sort_by(start_time): a stable sort.
RECURSIVE SortLoop(_, _)
SortLoop(rest, sorted) ==
    IF rest = <<>> THEN sorted
    ELSE SortLoop(Tail(rest), InsertByStart(sorted, Head(rest)))

\* Mutant of sort_by_start_time: of two segments with the same start_time the
\* one that came later in the list is placed first.
RECURSIVE InsertBeforeEqual(_, _)
InsertBeforeEqual(sorted, x) ==
    IF sorted = <<>> THEN <<x>>
    ELSE IF unwrap_or(Head(sorted).start_time, 0) < unwrap_or(x.start_time, 0)
         THEN <<Head(sorted)>> \o InsertBeforeEqual(Tail(sorted), x)
         ELSE <<x>> \o sorted

RECURSIVE SortLoopLaterFirst(_, _)
SortLoopLaterFirst(rest, sorted) ==
    IF rest = <<>> THEN sorted
    ELSE SortLoopLaterFirst(Tail(rest), InsertBeforeEqual(sorted, Head(rest)))

sort_by_start_time_later_first(segs) == SortLoopLaterFirst(segs, <<>>)

sort_by_start_time(segs) == SortLoop(segs, <<>>)

\* Mutant of MergeEngine: the accumulator is deduplicated in arrival order.
MergeEngineNoSort(segs) == deduplicate_segments(retain_timestamped(segs))

\* Lines 513-526: retain, sort, deduplicate.
MergeEngine(segs) ==
    deduplicate_segments(sort_by_start_time(retain_timestamped(segs)))


----------------------------------------------------------------------------
(* Strings of the response parser.  A text is a tuple of one-character      *)
(* strings; a Rust byte index b is position b + 1 of the tuple (the texts   *)
(* are ASCII).                                                              *)

\* content[a..b]
Slice(s, a, b) == SubSeq(s, a + 1, b)

MatchAt(s, pat, p) ==
    /\ p >= 1
    /\ p + Len(pat) - 1 <= Len(s)
    /\ SubSeq(s, p, p + Len(pat) - 1) = pat

Matches(s, pat) == {p \in 1..Len(s) : MatchAt(s, pat, p)}

\* str::find: the byte index of the first match.
find(s, pat) ==
    IF Matches(s, pat) = {} THEN None
    ELSE Some((CHOOSE p \in Matches(s, pat) :
                   \A q \in Matches(s, pat) : p <= q) - 1)

\* str::rfind: the byte index of the last match.
rfind(s, pat) ==
    IF Matches(s, pat) = {} THEN None
    ELSE Some((CHOOSE p \in Matches(s, pat) :
                   \A q \in Matches(s, pat) : p >= q) - 1)

\* The backquote character, which a string of this module cannot hold: the
\* texts are written with a tilde in its place.
Tick == "~"

Fence == <<Tick, Tick, Tick>>

FenceJson == <<Tick, Tick, Tick, "j", "s", "o", "n">>

\* extract_json: from a fence tagged json up to the last fence of the text,
\* else the first fenced block, else from the first opening brace to the last
\* closing brace, else the trimmed text.
extract_json(content) ==
    LET n == Len(content)
        start1 == find(content, FenceJson)
        end1 == IF IsSome(start1)
                THEN rfind(Slice(content, start1[1], n), Fence)
                ELSE None
        start2 == find(content, Fence)
        end_offset == IF IsSome(start2)
                      THEN find(Slice(content, start2[1] + 3, n), Fence)
                      ELSE None
        start3 == find(content, <<"{">>)
        end3 == rfind(content, <<"}">>)
    IN  IF IsSome(start1) /\ IsSome(end1) /\ end1[1] > 7
        THEN trim(Slice(content, start1[1] + 7, start1[1] + end1[1]))
        ELSE IF IsSome(start2) /\ IsSome(end_offset)
        THEN trim(Slice(content, start2[1] + 3, start2[1] + 3 + end_offset[1]))
        ELSE IF IsSome(start3) /\ IsSome(end3) /\ end3[1] > start3[1]
        THEN Slice(content, start3[1], end3[1] + 1)
        ELSE trim(content)

----------------------------------------------------------------------------
(* AIService::repair_json (ai_service.rs, lines 666-686)                     *)

\* The curly double quotes U+201C and U+201D, which a string of this module
\* cannot hold: the texts are written with < and > in their place.
Curly == [open |-> "<", close |-> ">"]

\* Regex::new(",(\s*<closer>)").replace_all(s, "$1") for a one-character
\* closer: matches are found left to right and do not overlap; each match is
\* replaced by its whitespace and closer, so only its comma is dropped.
RECURSIVE StripCommaBefore(_, _, _, _)
StripCommaBefore(s, closer, p, acc) ==
    IF p > Len(s) THEN acc
    ELSE LET rest == SubSeq(s, p + 1, Len(s))
             q == p + 1 + (Len(rest) - Len(TrimStart(rest)))
         IN  IF s[p] = "," /\ q <= Len(s) /\ s[q] = closer
             THEN StripCommaBefore(s, closer, q + 1, acc \o SubSeq(s, p + 1, q))
             ELSE StripCommaBefore(s, closer, p + 1, Append(acc, s[p]))

\* Mutant of repair_json: the pass for the closing bracket is left out.
repair_json_braces_only(json_str) ==
    LET braces == StripCommaBefore(json_str, "}", 1, <<>>)
    IN  [k \in 1..Len(braces) |->
            IF braces[k] \in {Curly.open, Curly.close} THEN "\"" ELSE braces[k]]

\* repair_json: commas before a closing brace, then commas before a closing
\* bracket, then both curly quotes replaced by the straight one.
repair_json(json_str) ==
    LET braces == StripCommaBefore(json_str, "}", 1, <<>>)
        brackets == StripCommaBefore(braces, "]", 1, <<>>)
    IN  [k \in 1..Len(brackets) |->
            IF brackets[k] \in {Curly.open, Curly.close} THEN "\""
            ELSE brackets[k]]

----------------------------------------------------------------------------
(* serde_json::from_str::<Value> on texts made of objects, arrays, strings  *)
(* without escapes, non-negative integers and the literals null, true and   *)
(* false.                                                                   *)

JNull == [t |-> "null", v |-> <<>>]

JBool(b) == [t |-> "bool", v |-> b]

JNum(digits) == [t |-> "num", v |-> digits]

JStr(chars) == [t |-> "str", v |-> chars]

JArr(elems) == [t |-> "arr", v |-> elems]

\* members: a sequence of [k |-> key, v |-> value], in text order
JObj(members) == [t |-> "obj", v |-> members]

ParseFail == [ok |-> FALSE, pos |-> 0, val |-> JNull]

ParseOk(pos, val) == [ok |-> TRUE, pos |-> pos, val |-> val]

Digits == {"0", "1", "2", "3", "4", "5", "6", "7", "8", "9"}

\* JSON whitespace
IsJsonSpace(c) == c \in {" ", "\n", "\t", "\r"}

\* The first position at or after p that holds no whitespace.
RECURSIVE SkipWs(_, _)
SkipWs(s, p) ==
    IF p <= Len(s) /\ IsJsonSpace(s[p]) THEN SkipWs(s, p + 1) ELSE p

\* The position of the quote that closes a string whose content starts at p,
\* or 0: a control character inside a string is an error.
RECURSIVE StringEnd(_, _)
StringEnd(s, p) ==
    IF p > Len(s) THEN 0
    ELSE IF s[p] = "\"" THEN p
    ELSE IF s[p] \in {"\n", "\t", "\r"} THEN 0
    ELSE StringEnd(s, p + 1)

\* A string that starts with the quote at p.
ParseString(s, p) ==
    IF p > Len(s) \/ s[p] # "\"" THEN ParseFail
    ELSE LET q == StringEnd(s, p + 1)
         IN  IF q = 0 THEN ParseFail
             ELSE ParseOk(q + 1, JStr(SubSeq(s, p + 1, q - 1)))

\* The first position at or after p that holds no digit.
RECURSIVE DigitsEnd(_, _)
DigitsEnd(s, p) ==
    IF p <= Len(s) /\ s[p] \in Digits THEN DigitsEnd(s, p + 1) ELSE p

\* A non-negative integer that starts at p: no leading zero.
ParseNumber(s, p) ==
    LET q == DigitsEnd(s, p)
    IN  IF s[p] = "0" /\ q > p + 1 THEN ParseFail
        ELSE ParseOk(q, JNum(SubSeq(s, p, q - 1)))

RECURSIVE ParseValue(_, _)
RECURSIVE ParseMembers(_, _, _)
RECURSIVE ParseElements(_, _, _)

\* A value that starts at or after p, behind optional whitespace.
ParseValue(s, p0) ==
    LET p == SkipWs(s, p0)
    IN  IF p > Len(s) THEN ParseFail
        ELSE IF s[p] = "{"
        THEN LET q == SkipWs(s, p + 1)
             IN  IF q <= Len(s) /\ s[q] = "}" THEN ParseOk(q + 1, JObj(<<>>))
                 ELSE ParseMembers(s, q, <<>>)
        ELSE IF s[p] = "["
        THEN LET q == SkipWs(s, p + 1)
             IN  IF q <= Len(s) /\ s[q] = "]" THEN ParseOk(q + 1, JArr(<<>>))
                 ELSE ParseElements(s, q, <<>>)
        ELSE IF s[p] = "\"" THEN ParseString(s, p)
        ELSE IF s[p] \in Digits THEN ParseNumber(s, p)
        ELSE IF MatchAt(s, <<"n", "u", "l", "l">>, p) THEN ParseOk(p + 4, JNull)
        ELSE IF MatchAt(s, <<"t", "r", "u", "e">>, p)
        THEN ParseOk(p + 4, JBool(TRUE))
        ELSE IF MatchAt(s, <<"f", "a", "l", "s", "e">>, p)
        THEN ParseOk(p + 5, JBool(FALSE))
        ELSE ParseFail

\* The members of an object from the key at p on, up to the closing brace; a
\* comma must be followed by another member.
ParseMembers(s, p, acc) ==
    LET key == ParseString(s, SkipWs(s, p))
        colon == SkipWs(s, key.pos)
        val == ParseValue(s, colon + 1)
        next == SkipWs(s, val.pos)
        members == Append(acc, [k |-> key.val.v, v |-> val.val])
    IN  IF ~key.ok THEN ParseFail
        ELSE IF colon > Len(s) \/ s[colon] # ":" THEN ParseFail
        ELSE IF ~val.ok THEN ParseFail
        ELSE IF next > Len(s) THEN ParseFail
        ELSE IF s[next] = "}" THEN ParseOk(next + 1, JObj(members))
        ELSE IF s[next] = "," THEN ParseMembers(s, next + 1, members)
        ELSE ParseFail

\* The elements of an array from the value at p on, up to the closing bracket.
ParseElements(s, p, acc) ==
    LET val == ParseValue(s, p)
        next == SkipWs(s, val.pos)
        elems == Append(acc, val.val)
    IN  IF ~val.ok THEN ParseFail
        ELSE IF next > Len(s) THEN ParseFail
        ELSE IF s[next] = "]" THEN ParseOk(next + 1, JArr(elems))
        ELSE IF s[next] = "," THEN ParseElements(s, next + 1, elems)
        ELSE ParseFail

\* serde_json::from_str: one value, then only whitespace.
from_str(s) ==
    LET r == ParseValue(s, 1)
    IN  IF r.ok /\ SkipWs(s, r.pos) > Len(s) THEN [ok |-> TRUE, val |-> r.val]
        ELSE [ok |-> FALSE, val |-> JNull]

\* Value::get(key): the member of an object (the last one of that name).
get(val, key) ==
    IF val.t # "obj" THEN None
    ELSE LET hits == {k \in 1..Len(val.v) : val.v[k].k = key}
         IN  IF hits = {} THEN None
             ELSE Some(val.v[CHOOSE k \in hits : \A l \in hits : k >= l].v)

\* val[key]: Null when val is no object or has no such member.
Index(val, key) == unwrap_or(get(val, key), JNull)

as_str(val) == IF val.t = "str" THEN Some(val.v) ELSE None

as_array(val) == IF val.t = "arr" THEN Some(val.v) ELSE None

----------------------------------------------------------------------------
(* parse_time_str and parse_transcription_response *)

DigitValue(c) ==
    CASE c = "0" -> 0 [] c = "1" -> 1 [] c = "2" -> 2 [] c = "3" -> 3
      [] c = "4" -> 4 [] c = "5" -> 5 [] c = "6" -> 6 [] c = "7" -> 7
      [] c = "8" -> 8 [] c = "9" -> 9

RECURSIVE DecimalValue(_, _)
DecimalValue(s, acc) ==
    IF s = <<>> THEN acc
    ELSE DecimalValue(Tail(s), 10 * acc + DigitValue(Head(s)))

\* part.parse::<f64>().unwrap_or(0.0) for a part made of digits; any other
\* part of the texts used here (empty, letters) fails to parse and counts 0.
ParseSeconds(part) ==
    IF part # <<>> /\ \A k \in 1..Len(part) : part[k] \in Digits
    THEN DecimalValue(part, 0)
    ELSE 0

\* time_str.split(':')
RECURSIVE SplitColon(_, _, _)
SplitColon(s, cur, parts) ==
    IF s = <<>> THEN Append(parts, cur)
    ELSE IF Head(s) = ":" THEN SplitColon(Tail(s), <<>>, Append(parts, cur))
    ELSE SplitColon(Tail(s), Append(cur, Head(s)), parts)

\* parse_time_str: MM:SS or HH:MM:SS to seconds, anything else 0.
parse_time_str(time_str) ==
    LET parts == SplitColon(time_str, <<>>, <<>>)
    IN  IF Len(parts) = 2
        THEN ParseSeconds(parts[1]) * 60 + ParseSeconds(parts[2])
        ELSE IF Len(parts) = 3
        THEN ParseSeconds(parts[1]) * 3600 + ParseSeconds(parts[2]) * 60
                 + ParseSeconds(parts[3])
        ELSE 0

KeySegments == <<"s", "e", "g", "m", "e", "n", "t", "s">>

KeyStart == <<"s", "t", "a", "r", "t">>

KeyEnd == <<"e", "n", "d">>

KeyTimestamp == <<"t", "i", "m", "e", "s", "t", "a", "m", "p">>

KeyContent == <<"c", "o", "n", "t", "e", "n", "t">>

KeySpeaker == <<"s", "p", "e", "a", "k", "e", "r">>

KeyFullText == <<"f", "u", "l", "l", "_", "t", "e", "x", "t">>

\* The closure of filter_map for one element of the segments array: None
\* when it has no start/timestamp string or no content string.
SegmentOf(seg) ==
    LET start_str == IF IsSome(as_str(Index(seg, KeyStart)))
                     THEN as_str(Index(seg, KeyStart))
                     ELSE as_str(Index(seg, KeyTimestamp))
        end_str == unwrap_or(as_str(Index(seg, KeyEnd)), unwrap_or(start_str, <<>>))
        text == as_str(Index(seg, KeyContent))
    IN  IF start_str = None \/ text = None THEN None
        ELSE Some([speaker |-> as_str(Index(seg, KeySpeaker)),
                   content |-> text[1],
                   start_time |-> Some(parse_time_str(start_str[1])),
                   end_time |-> Some(parse_time_str(end_str))])

RECURSIVE FilterMapSegments(_)
FilterMapSegments(elems) ==
    IF elems = <<>> THEN <<>>
    ELSE SegmentOf(Head(elems)) \o FilterMapSegments(Tail(elems))

ParsedOk(segs, full_text) ==
    [ok |-> TRUE, segments |-> segs, full_text |-> full_text, err |-> ""]

ParsedErr(e) ==
    [ok |-> FALSE, segments |-> <<>>, full_text |-> <<>>, err |-> e]

\* TranscriptionResult { segments: Vec::new(), full_text: String::new() }
EmptyTranscription == ParsedOk(<<>>, <<>>)

\* Lines 1152-1188: parse json_str, take the segments array, build the result.
ParseJsonStr(json_str) ==
    LET parsed == from_str(json_str)
        segments == as_array(Index(parsed.val, KeySegments))
    IN  IF ~parsed.ok THEN ParsedErr("json_syntax")
        ELSE IF segments = None THEN ParsedErr("no_segments")
        ELSE ParsedOk(FilterMapSegments(segments[1]),
                      unwrap_or(as_str(Index(parsed.val, KeyFullText)), <<>>))

\* Mutant of parse_transcription_response: an empty answer is an error.
parse_transcription_response_empty_is_error(content) ==
    IF trim(content) = <<>> THEN ParsedErr("json_syntax")
    ELSE ParseJsonStr(extract_json(content))

\* parse_transcription_response
parse_transcription_response(content) ==
    IF trim(content) = <<>> THEN EmptyTranscription
    ELSE LET json_str == extract_json(content)
             whole == from_str(content)
         IN  IF trim(json_str) = <<>>
             THEN IF whole.ok
                  THEN IF IsSome(get(whole.val, KeySegments))
                       THEN ParseJsonStr(content)
                       ELSE EmptyTranscription
                  ELSE EmptyTranscription
             ELSE ParseJsonStr(json_str)

----------------------------------------------------------------------------
(* Inputs of one run of extract_subtitles *)

\* provider/model: an audio backend, the video-capable Kimi K2.5, or a provider
\* transcribe_audio_with_gemini has no URL for.
Backends == {"gemini", "kimi_k25", "unsupported"}

\* Durations the probe can report (seconds); None: no Duration line parsed.
Durations == {300, 600, 601, 1140, 1141, 1800}

ProbeOutcomes == {None} \cup {Some(d) : d \in Durations}

\* Chunk-local transcriptions the backend can answer with.
ResponseNear == <<Seg(Some(25), Some(29), TextHelloPadded)>>

ResponseFar == <<Seg(Some(595), Some(599), TextHello),
                 Seg(Some(10), Some(12), TextOther)>>

\* The answers the backend can give, by name: no text, whitespace, prose, an
\* object without segments, and the two transcriptions above.
Contents == {"empty", "blank", "bad_a", "bad_b", "near", "far"}

\* {"segments":[{"start":"00:25","end":"00:29","content":" abcde"}]}
TextNear ==
    <<"{", "\"", "s", "e", "g", "m", "e", "n", "t", "s", "\"", ":", "[", "{",
      "\"", "s", "t", "a", "r", "t", "\"", ":", "\"", "0", "0", ":", "2", "5",
      "\"", ",", "\"", "e", "n", "d", "\"", ":", "\"", "0", "0", ":", "2",
      "9", "\"", ",", "\"", "c", "o", "n", "t", "e", "n", "t", "\"", ":",
      "\"", " ", "a", "b", "c", "d", "e", "\"", "}", "]", "}">>

\* zz\n~~~json\n{"segments":[{"start":"09:55","end":"09:59","content":"abcde"},{"start":"00:10","end":"00:12","content":"zz"}],"full_text":"abcde zz"}\n~~~
TextFar ==
    <<"z", "z", "\n", Tick, Tick, Tick, "j", "s", "o", "n", "\n", "{", "\"", "s",
      "e", "g", "m", "e", "n", "t", "s", "\"", ":", "[", "{", "\"", "s", "t",
      "a", "r", "t", "\"", ":", "\"", "0", "9", ":", "5", "5", "\"", ",",
      "\"", "e", "n", "d", "\"", ":", "\"", "0", "9", ":", "5", "9", "\"",
      ",", "\"", "c", "o", "n", "t", "e", "n", "t", "\"", ":", "\"", "a", "b",
      "c", "d", "e", "\"", "}", ",", "{", "\"", "s", "t", "a", "r", "t", "\"",
      ":", "\"", "0", "0", ":", "1", "0", "\"", ",", "\"", "e", "n", "d",
      "\"", ":", "\"", "0", "0", ":", "1", "2", "\"", ",", "\"", "c", "o",
      "n", "t", "e", "n", "t", "\"", ":", "\"", "z", "z", "\"", "}", "]", ",",
      "\"", "f", "u", "l", "l", "_", "t", "e", "x", "t", "\"", ":", "\"", "a",
      "b", "c", "d", "e", " ", "z", "z", "\"", "}", "\n", Tick, Tick, Tick>>

\* The text of the answer named c.
ResponseText(c) ==
    CASE c = "empty" -> <<>>
      [] c = "blank" -> <<" ", "\n">>
      [] c = "bad_a" -> <<"z", "z">>
      [] c = "bad_b" -> <<"{", "\"", "a", "\"", ":", "[", "]", "}">>
      [] c = "near"  -> TextNear
      [] c = "far"   -> TextFar

\* Ways an attempt ends before any content is parsed.  read_err: fs::read of
\* the clip fails (no request is sent); the others follow a sent request.
FatalOutcomes == {"read_err", "net_err", "http_err", "body_err"}

NoError == [kind |-> "", last |-> ""]

Error(kind, last) == [kind |-> kind, last |-> last]

\* parse_transcription_response applied to each answer.
ParsedResponse ==
    [c \in Contents |-> parse_transcription_response(ResponseText(c))]

\* parse_transcription_response applied to the answer named content.
Parsed(content) == ParsedResponse[content]

\* Mutant of Ev: the count field is left out of the payload.
EvWithoutCount(phase, cur, tot, cnt) ==
    [phase |-> phase, current |-> cur, total |-> tot, count |-> <<>>]

\* A progress event.
Ev(phase, cur, tot, cnt) ==
    [phase |-> phase, current |-> cur, total |-> tot, count |-> cnt]

\* Mutant of Phase: every event carries the phase name "progress".
PhaseUnnamed(phase) == Ev("progress", None, None, None)

Phase(phase) == Ev(phase, None, None, None)

\* An entry of a window's log of what it did.
Step(op, n, err) == [op |-> op, n |-> n, err |-> err]

\* transcription_to_segments
RECURSIVE ToArticleFrom(_, _)
ToArticleFrom(segs, k) ==
    IF segs = <<>> THEN <<>>
    ELSE <<[order |-> k, text |-> Head(segs).content,
            start_time |-> Head(segs).start_time,
            end_time |-> Head(segs).end_time,
            is_new_paragraph |-> TRUE]>> \o ToArticleFrom(Tail(segs), k + 1)

transcription_to_segments(segs) == ToArticleFrom(segs, 0)

Pending == [status |-> "pending", segments |-> <<>>, error |-> NoError]

Ok(segs) == [status |-> "ok", segments |-> segs, error |-> NoError]

Err(e) == [status |-> "err", segments |-> <<>>, error |-> e]

----------------------------------------------------------------------------
(* Chunk planning: lines 389-400 *)

step == CHUNK_DURATION - OVERLAP

\* while pos < total_duration { chunk_starts.push(pos); pos += step; }
RECURSIVE PlanLoop(_, _, _)
PlanLoop(pos, total, acc) ==
    IF pos < total THEN PlanLoop(pos + step, total, Append(acc, pos)) ELSE acc

\* Mutant: a window is planned only if a whole step still lies before the end.
RECURSIVE PlanLoopNoTail(_, _, _)
PlanLoopNoTail(pos, total, acc) ==
    IF pos + step < total
    THEN PlanLoopNoTail(pos + step, total, Append(acc, pos))
    ELSE acc

PlanChunksNoTail(total) == PlanLoopNoTail(0, total, <<>>)

PlanChunks(total) == PlanLoop(0, total, <<>>)

\* Mutant: every window is a full CHUNK_DURATION long.
ChunkLenFull(total, start) == CHUNK_DURATION

\* dur = (total_duration - start).min(CHUNK_DURATION)
ChunkLen(total, start) == Min(total - start, CHUNK_DURATION)

\* format!("chunk_{}", i): the suffix of the clip of window k.
chunk_suffix_shared(k) == <<"chunk", 0>>

chunk_suffix(k) == <<"chunk", k>>

\* Mutant of ChunkProgress: the event counts the round that is about to run.
ChunkProgressAhead(completed, total) ==
    Ev("chunk", Some(completed + 2), Some(total), None)

\* The "chunk" event: "current": completed_chunks.min(total_chunks) after a
\* round (before a round completed_chunks <= total_chunks already holds).
ChunkProgress(completed, total) ==
    Ev("chunk", Some(Min(completed, total)), Some(total), None)

\* A window before it is started.
NewWindow(start, dur, clip) ==
    [wpc |-> "idle", start |-> start, dur |-> dur, clip |-> clip,
     retry_count |-> 0, log |-> <<>>, segments |-> <<>>,
     first_segment_start |-> None, last_segment_end |-> None,
     error |-> NoError]

\* Mutant: every remaining window is started at once.
RoundWindowsAll(k, n) == k..(n - 1)

\* The windows one turn of the loop starts: the pair (k, k+1), or k alone.
RoundWindows(k, n) == IF k + 1 < n THEN {k, k + 1} ELSE {k}

InFlight(w) == windows[w].wpc \in {"slice", "call", "sleep"}

Finished(w) == windows[w].wpc \in {"done", "failed"}

\* The window has returned, whether or not its result was consumed yet.
Completed(w) == windows[w].wpc \in {"done", "failed", "joined"}


----------------------------------------------------------------------------
(* transcribe_audio_with_gemini: the retry loop, lines 904-1111 *)

\* How one pass of the loop can end, by backend.  A provider without a URL
\* fails before any request is built (lines 1015-1026).
AttemptOutcomes(b) ==
    IF b = "unsupported" THEN {"read_err", "config_err"}
    ELSE FatalOutcomes \cup Contents

\* Mutant: one more attempt is allowed before giving up.
retries_exhausted_off_by_one(rc) == rc > MAX_RETRIES

\* if retry_count >= MAX_RETRIES { return Err(..) }
retries_exhausted(rc) == rc >= MAX_RETRIES

\* Mutant: a failed request is retried like a parse failure.
on_request_error_retry(outcome) == "sleep"

\* send().await.map_err(..)?, the status check and response.json()?: the
\* function returns the error at once.
on_request_error(outcome) == "return_err"

\* One pass of the loop for the window record win when the attempt ends with
\* outcome: what the function does next (return_ok, return_err, sleep) and the
\* window's retry state and log after it.
AttemptResult(win, outcome, parsed) ==
    LET attempt == win.retry_count + 1
        base == [next |-> "return_err", retry_count |-> win.retry_count,
                 log |-> win.log, segments |-> <<>>, error |-> NoError]
        called == Append(win.log, Step("call", attempt, ""))
        rc == win.retry_count + 1
    IN  IF outcome \in {"read_err", "config_err"}
        THEN [base EXCEPT !.error = Error(outcome, "")]
        ELSE IF outcome \in FatalOutcomes
        THEN [base EXCEPT
                 !.next = on_request_error(outcome),
                 !.log = Append(called, Step(outcome, attempt, "")),
                 !.error = Error(outcome, "")]
        ELSE IF parsed.ok
        THEN [base EXCEPT
                 !.next = "return_ok",
                 !.log = Append(called, Step("parse_ok", attempt, outcome)),
                 !.segments = parsed.segments]
        ELSE [base EXCEPT
                 !.next = IF retries_exhausted(rc) THEN "return_err"
                          ELSE "sleep",
                 !.retry_count = rc,
                 !.log = Append(called,
                                Step("parse_fail", attempt, parsed.err)),
                 !.error = Error("retries_exhausted", parsed.err)]

\* transcribe_with_retry, one pass: the content of a 200 answer goes through
\* parse_transcription_response (line 1098).
TranscribeAttemptResult(win, outcome) ==
    AttemptResult(win, outcome,
                  IF outcome \in Contents THEN Parsed(outcome)
                  ELSE ParsedErr("not_run"))

----------------------------------------------------------------------------
(* extract_and_transcribe_segment: lines 301-370 *)

\* Mutant of ShiftSegments: only the start of a segment is shifted.
ShiftSegmentsStartOnly(segs, offset) ==
    [k \in 1..Len(segs) |->
        [segs[k] EXCEPT
            !.start_time = IF IsSome(@) THEN Some(@[1] + offset) ELSE @]]

\* seg.start_time = Some(st + start_time); seg.end_time = Some(et + start_time)
ShiftSegments(segs, offset) ==
    [k \in 1..Len(segs) |->
        [segs[k] EXCEPT
            !.start_time = IF IsSome(@) THEN Some(@[1] + offset) ELSE @,
            !.end_time   = IF IsSome(@) THEN Some(@[1] + offset) ELSE @]]

\* Mutant of WindowAfter: the timestamps are shifted before the clip is removed.
WindowAfterOffsetFirst(win, res) ==
    IF res.next = "return_ok"
    THEN LET shifted == ShiftSegments(res.segments, win.start)
         IN  [win EXCEPT
                 !.wpc = "done",
                 !.retry_count = res.retry_count,
                 !.log = res.log \o <<Step("offset", win.start, ""),
                                      Step("cleanup", 0, "")>>,
                 !.segments = shifted,
                 !.first_segment_start =
                     IF shifted = <<>> THEN <<>> ELSE shifted[1].start_time,
                 !.last_segment_end =
                     IF shifted = <<>> THEN <<>>
                     ELSE shifted[Len(shifted)].end_time]
    ELSE [win EXCEPT
             !.wpc = IF res.next = "return_err" THEN "failed" ELSE "sleep",
             !.retry_count = res.retry_count,
             !.log = res.log,
             !.error = IF res.next = "return_err" THEN res.error ELSE @]

\* The window after transcribe_audio_with_gemini's pass res: on Ok the clip is
\* removed, then the timestamps are shifted; on Err the `?` returns at once.
WindowAfter(win, res) ==
    IF res.next = "return_ok"
    THEN LET shifted == ShiftSegments(res.segments, win.start)
         IN  [win EXCEPT
                 !.wpc = "done",
                 !.retry_count = res.retry_count,
                 !.log = res.log \o <<Step("cleanup", 0, ""),
                                      Step("offset", win.start, "")>>,
                 !.segments = shifted,
                 !.first_segment_start =
                     IF shifted = <<>> THEN None ELSE shifted[1].start_time,
                 !.last_segment_end =
                     IF shifted = <<>> THEN None
                     ELSE shifted[Len(shifted)].end_time]
    ELSE IF res.next = "return_err"
    THEN [win EXCEPT
             !.wpc = "failed",
             !.retry_count = res.retry_count,
             !.log = res.log,
             !.error = res.error]
    ELSE [win EXCEPT
             !.wpc = "sleep",
             !.retry_count = res.retry_count,
             !.log = res.log]

\* Files on disk after the pass res: fs::remove_file runs only past the `?`.
FilesAfter(win, res, fs) ==
    IF res.next = "return_ok" THEN fs \ {win.clip} ELSE fs


----------------------------------------------------------------------------
(* State *)

NoWindows == [w \in {} |-> NewWindow(0, 0, <<"none", 0>>)]

PipeInit ==
    /\ pc = "init"
    /\ backend \in Backends
    /\ probe \in ProbeOutcomes
    /\ total_duration = None
    /\ mode = "none"
    /\ events = <<>>
    /\ chunk_starts = <<>>
    /\ i = 0
    /\ completed_chunks = 0
    /\ all_segments = <<>>
    /\ windows = NoWindows
    /\ files = {}
    /\ kimi_calls = 0
    /\ result = Pending
    /\ returned = <<>>

MergeOff ==
    /\ m_pc = "off"
    /\ m_in = <<>>
    /\ m_out = <<>>
    /\ m_again = <<>>

ParseOff ==
    /\ p_pc = "off"
    /\ p_content = <<>>
    /\ p_json = <<>>
    /\ p_result = ParsedErr("not_run")

RepairOff ==
    /\ r_pc = "off"
    /\ r_text = <<>>
    /\ r_out = <<>>

QueueOff ==
    /\ q_pc = "off"
    /\ q_args = <<>>
    /\ q_out = <<>>

Init == PipeInit /\ MergeOff /\ ParseOff /\ RepairOff /\ QueueOff

Emit(e) == events' = Append(events, e)

Return(r) == /\ result' = r
             /\ pc' = "done"

----------------------------------------------------------------------------
(* extract_subtitles: lines 46-141 *)

\* Lines 58-65: the start event, then the probe is awaited.
Start ==
    /\ pc = "init"
    /\ Emit(Phase("start"))
    /\ pc' = "probe"
    /\ UNCHANGED <<backend, probe, total_duration, mode, chunk_starts, i,
                   completed_chunks, all_segments, windows, files, kimi_calls,
                   result>>
    /\ UNCHANGED returned
    /\ UNCHANGED <<mergeVars, parseVars, repairVars, queueVars>>

\* Mutant of get_video_duration: a probe without a Duration line counts as a
\* duration of 0 s.
get_video_duration_or_zero(p) ==
    [ok |-> TRUE, duration |-> unwrap_or(p, 0), error |-> NoError]

\* get_video_duration: the duration of the first "Duration:" line of FFmpeg's
\* stderr, or Err when no line has one.
get_video_duration(p) ==
    IF IsSome(p) THEN [ok |-> TRUE, duration |-> p[1], error |-> NoError]
    ELSE [ok |-> FALSE, duration |-> 0,
          error |-> Error("duration_unavailable", "")]

\* get_video_duration returns: Err propagates by `?`.
ProbeReturns ==
    /\ pc = "probe"
    /\ LET r == get_video_duration(probe)
       IN  IF r.ok
           THEN /\ total_duration' = Some(r.duration)
                /\ pc' = "probed"
                /\ UNCHANGED result
           ELSE /\ Return(Err(r.error))
                /\ UNCHANGED total_duration
    /\ UNCHANGED <<backend, probe, mode, events, chunk_starts, i,
                   completed_chunks, all_segments, windows, files, kimi_calls>>
    /\ UNCHANGED returned
    /\ UNCHANGED <<mergeVars, parseVars, repairVars, queueVars>>

\* provider == "moonshot" && model.contains("k2.5")
video_capable(b) == b = "kimi_k25"

\* Mutant: the threshold itself already selects the chunked mode.
exceeds_threshold_inclusive(d) == d >= CHUNK_THRESHOLD_SECONDS

\* duration > CHUNK_THRESHOLD_SECONDS
exceeds_threshold(d) == d > CHUNK_THRESHOLD_SECONDS

\* Lines 75-110: the mode is chosen and runs up to its first await.
SelectMode ==
    /\ pc = "probed"
    /\ LET d == total_duration[1]
       IN  IF video_capable(backend)
           THEN /\ mode' = "WholeVideo"
                /\ events' = events \o <<Phase("processing"), Phase("compress")>>
                /\ files' = files \ {<<"compressed", 0>>}
                /\ pc' = "kimi_compress"
                /\ UNCHANGED <<chunk_starts, windows>>
           ELSE IF exceeds_threshold(d)
           THEN LET starts == PlanChunks(d)
                IN  /\ mode' = "Chunked"
                    /\ Emit(Phase("chunked"))
                    /\ chunk_starts' = starts
                    /\ windows' = [w \in 0..(Len(starts) - 1) |->
                                     NewWindow(starts[w + 1],
                                               ChunkLen(d, starts[w + 1]),
                                               chunk_suffix(w))]
                    /\ pc' = "round"
                    /\ UNCHANGED files
           ELSE /\ mode' = "SingleShot"
                /\ Emit(Phase("audio"))
                /\ windows' = [w \in {0} |-> NewWindow(0, d, <<"audio", 0>>)]
                /\ files' = files \ {<<"audio", 0>>}
                /\ pc' = "single_audio"
                /\ UNCHANGED chunk_starts
    /\ UNCHANGED <<backend, probe, total_duration, i, completed_chunks,
                   all_segments, kimi_calls, result>>
    /\ UNCHANGED returned
    /\ UNCHANGED <<mergeVars, parseVars, repairVars, queueVars>>


----------------------------------------------------------------------------
(* extract_subtitles_chunked: lines 378-549 *)

\* Lines 412-455 and 462-483: the "chunk" event, then the pair (or the single
\* trailing window) is started; each window first removes a stale clip of its
\* own name (lines 246-251) and awaits FFmpeg.
StartRound ==
    /\ pc = "round"
    /\ i < Len(chunk_starts)
    /\ LET ws == RoundWindows(i, Len(chunk_starts))
       IN  /\ Emit(ChunkProgress(completed_chunks, Len(chunk_starts)))
           /\ windows' = [w \in DOMAIN windows |->
                            IF w \in ws THEN [windows[w] EXCEPT !.wpc = "slice"]
                            ELSE windows[w]]
           /\ files' = files \ {windows[w].clip : w \in ws}
    /\ pc' = "join"
    /\ returned' = <<>>
    /\ UNCHANGED <<backend, probe, total_duration, mode, chunk_starts, i,
                   completed_chunks, all_segments, kimi_calls, result>>
    /\ UNCHANGED <<mergeVars, parseVars, repairVars, queueVars>>

\* extract_audio_segment returns (lines 260-295): the clip exists, or Err.
SliceReturns(w) ==
    /\ pc = "join"
    /\ w \in DOMAIN windows
    /\ windows[w].wpc = "slice"
    /\ \E ok \in BOOLEAN :
          IF ok
          THEN /\ windows' = [windows EXCEPT
                                 ![w].wpc = "call",
                                 ![w].log = Append(@, Step("slice", 0, ""))]
               /\ files' = files \cup {windows[w].clip}
               /\ UNCHANGED returned
          ELSE /\ windows' = [windows EXCEPT
                                 ![w].wpc = "failed",
                                 ![w].error = Error("slice_failed", "")]
               /\ returned' = Append(returned, w)
               /\ UNCHANGED files
    /\ UNCHANGED <<pc, backend, probe, total_duration, mode, events,
                   chunk_starts, i, completed_chunks, all_segments, kimi_calls,
                   result>>
    /\ UNCHANGED <<mergeVars, parseVars, repairVars, queueVars>>

\* One pass of the retry loop inside a chunk window, up to the window's
\* return or to the retry sleep.
WindowTranscribeAttempt(w) ==
    /\ pc = "join"
    /\ w \in DOMAIN windows
    /\ windows[w].wpc = "call"
    /\ \E outcome \in AttemptOutcomes(backend) :
          \E res \in {TranscribeAttemptResult(windows[w], outcome)} :
              /\ windows' = [windows EXCEPT ![w] = WindowAfter(windows[w], res)]
              /\ files' = FilesAfter(windows[w], res, files)
              /\ returned' = IF res.next = "sleep" THEN returned
                              ELSE Append(returned, w)
    /\ UNCHANGED <<pc, backend, probe, total_duration, mode, events,
                   chunk_starts, i, completed_chunks, all_segments, kimi_calls,
                   result>>
    /\ UNCHANGED <<mergeVars, parseVars, repairVars, queueVars>>

\* tokio::time::sleep(Duration::from_secs(2)).await; continue
RetrySleep(w) ==
    /\ pc \in {"join", "single_transcribe"}
    /\ w \in DOMAIN windows
    /\ windows[w].wpc = "sleep"
    /\ windows' = [windows EXCEPT
                      ![w].wpc = "call",
                      ![w].log = Append(@, Step("sleep", RETRY_DELAY_SECS, ""))]
    /\ UNCHANGED <<pc, backend, probe, total_duration, mode, events,
                   chunk_starts, i, completed_chunks, all_segments, files,
                   kimi_calls, result>>
    /\ UNCHANGED returned
    /\ UNCHANGED <<mergeVars, parseVars, repairVars, queueVars>>

\* Mutant: the join resumes as soon as one window of the round has failed,
\* dropping the other one.
JoinReadyOnFirstError(ws) ==
    \/ \A w \in ws : Finished(w)
    \/ \E w \in ws : windows[w].wpc = "failed"

\* tokio::join! / .await resumes when every window of the round has returned.
JoinReady(ws) == \A w \in ws : Finished(w)

\* Mutant: a failed window is skipped and the job goes on with what it has.
FirstFailedNone(ws) == {}

\* r1? is evaluated before r2?: the failed window of lowest index, if any.
FirstFailed(ws) ==
    LET failed == {w \in ws : windows[w].wpc = "failed"}
    IN  {w \in failed : \A v \in failed : w <= v}

\* all_segments.extend(..) for the windows of ws up to (not including) limit,
\* in index order.
RECURSIVE ExtendFrom(_, _, _)
ExtendFrom(acc, k, limit) ==
    IF k >= limit THEN acc
    ELSE ExtendFrom(acc \o windows[k].segments, k + 1, limit)

\* A window whose ChunkTranscriptionResult was moved into all_segments: the
\* result and the future are dropped.
Joined(win) == [NewWindow(win.start, win.dur, win.clip) EXCEPT !.wpc = "joined"]

\* Lines 457-460, 486-497: results are unwrapped in index order; the first
\* Err returns from the job, else the counters advance and "chunk" is emitted.
JoinRound ==
    /\ pc = "join"
    /\ LET n == Len(chunk_starts)
           ws == RoundWindows(i, n)
           bad == FirstFailed(ws)
           last == i + Cardinality(ws)
       IN  /\ JoinReady(ws)
           /\ IF bad # {}
              THEN LET b == CHOOSE w \in bad : TRUE
                   IN  /\ all_segments' = ExtendFrom(all_segments, i, b)
                       /\ Return(Err(windows[b].error))
                       /\ UNCHANGED <<i, completed_chunks, events, windows>>
              ELSE /\ all_segments' = ExtendFrom(all_segments, i, last)
                   /\ completed_chunks' = completed_chunks + Cardinality(ws)
                   /\ i' = last
                   /\ Emit(ChunkProgress(completed_chunks + Cardinality(ws), n))
                   /\ windows' = [w \in DOMAIN windows |->
                                    IF w \in ws THEN Joined(windows[w])
                                    ELSE windows[w]]
                   /\ pc' = "round"
                   /\ UNCHANGED result
    /\ UNCHANGED <<backend, probe, total_duration, mode, chunk_starts, files,
                   kimi_calls>>
    /\ UNCHANGED returned
    /\ UNCHANGED <<mergeVars, parseVars, repairVars, queueVars>>

\* Lines 500-548: merge event, retain + sort + dedup, done event, Ok.
MergeAndFinish ==
    /\ pc = "round"
    /\ i >= Len(chunk_starts)
    /\ LET deduped == MergeEngine(all_segments)
       IN  /\ all_segments' = sort_by_start_time(retain_timestamped(all_segments))
           /\ events' = events \o <<Phase("merge"),
                                    Ev("done", None, None, Some(Len(deduped)))>>
           /\ Return(Ok(transcription_to_segments(deduped)))
    /\ UNCHANGED <<backend, probe, total_duration, mode, chunk_starts, i,
                   completed_chunks, windows, files, kimi_calls>>
    /\ UNCHANGED returned
    /\ UNCHANGED <<mergeVars, parseVars, repairVars, queueVars>>


----------------------------------------------------------------------------
(* The single-shot branch of extract_subtitles: lines 105-140 *)

\* extract_audio_from_video returns (line 113), then the "transcribe" event.
ExtractAudioReturns ==
    /\ pc = "single_audio"
    /\ \E ok \in BOOLEAN :
          IF ok
          THEN /\ files' = files \cup {windows[0].clip}
               /\ windows' = [windows EXCEPT
                                 ![0].wpc = "call",
                                 ![0].log = Append(@, Step("slice", 0, ""))]
               /\ Emit(Phase("transcribe"))
               /\ pc' = "single_transcribe"
               /\ UNCHANGED result
          ELSE /\ windows' = [windows EXCEPT
                                 ![0].wpc = "failed",
                                 ![0].error = Error("slice_failed", "")]
               /\ Return(Err(Error("slice_failed", "")))
               /\ UNCHANGED <<files, events>>
    /\ UNCHANGED <<backend, probe, total_duration, mode, chunk_starts, i,
                   completed_chunks, all_segments, kimi_calls>>
    /\ UNCHANGED returned
    /\ UNCHANGED <<mergeVars, parseVars, repairVars, queueVars>>

\* The whole-file window after the pass res: on Ok the segments are converted
\* and the audio file removed (lines 130-135); no offset, no sort, no dedup.
SingleAfter(win, res) ==
    IF res.next = "return_ok"
    THEN [win EXCEPT
             !.wpc = "done",
             !.retry_count = res.retry_count,
             !.log = Append(res.log, Step("cleanup", 0, "")),
             !.segments = res.segments]
    ELSE WindowAfter(win, res)

\* One pass of the retry loop in single-shot mode, up to the return of
\* extract_subtitles or to the retry sleep.
SingleTranscribeAttempt ==
    /\ pc = "single_transcribe"
    /\ windows[0].wpc = "call"
    /\ \E outcome \in AttemptOutcomes(backend) :
          \E res \in {TranscribeAttemptResult(windows[0], outcome)} :
          \E segs \in {transcription_to_segments(res.segments)} :
              /\ windows' = [windows EXCEPT ![0] = SingleAfter(windows[0], res)]
              /\ files' = FilesAfter(windows[0], res, files)
              /\ IF res.next = "return_ok"
                 THEN /\ Emit(Ev("done", None, None, Some(Len(segs))))
                      /\ Return(Ok(segs))
                 ELSE IF res.next = "return_err"
                 THEN /\ Return(Err(res.error))
                      /\ UNCHANGED events
                 ELSE UNCHANGED <<events, result, pc>>
    /\ UNCHANGED <<backend, probe, total_duration, mode, chunk_starts, i,
                   completed_chunks, all_segments, kimi_calls>>
    /\ UNCHANGED returned
    /\ UNCHANGED <<mergeVars, parseVars, repairVars, queueVars>>

----------------------------------------------------------------------------
(* extract_subtitles_with_kimi: lines 722-841 *)

\* compress_video_for_upload returns; then encode event, fs::read, the
\* compressed file is removed, analyze event, and the chat call is awaited.
CompressReturns ==
    /\ pc = "kimi_compress"
    /\ \E outcome \in {"ok", "compress_failed", "read_err"} :
          IF outcome = "compress_failed"
          THEN /\ Return(Err(Error("compress_failed", "")))
               /\ UNCHANGED <<events, files>>
          ELSE IF outcome = "read_err"
          THEN /\ Emit(Phase("encode"))
               /\ files' = files \cup {<<"compressed", 0>>}
               /\ Return(Err(Error("read_err", "")))
          ELSE /\ events' = events \o <<Phase("encode"), Phase("analyze")>>
               /\ files' = files \ {<<"compressed", 0>>}
               /\ pc' = "kimi_chat"
               /\ UNCHANGED result
    /\ UNCHANGED <<backend, probe, total_duration, mode, chunk_starts, i,
                   completed_chunks, all_segments, windows, kimi_calls>>
    /\ UNCHANGED returned
    /\ UNCHANGED <<mergeVars, parseVars, repairVars, queueVars>>

\* Mutant: a response that does not parse is asked for again, up to
\* MAX_RETRIES times.
KimiChatRetried ==
    /\ pc = "kimi_chat"
    /\ kimi_calls' = kimi_calls + 1
    /\ \E outcome \in {"chat_err"} \cup Contents :
          IF outcome = "chat_err"
          THEN /\ Return(Err(Error("chat_err", "")))
               /\ UNCHANGED events
          ELSE \E parsed \in {Parsed(outcome)} :
               \E segs \in {transcription_to_segments(parsed.segments)} :
                   IF parsed.ok
                   THEN /\ Emit(Ev("done", None, None, Some(Len(segs))))
                        /\ Return(Ok(segs))
                   ELSE IF kimi_calls + 1 < MAX_RETRIES
                   THEN UNCHANGED <<pc, result, events>>
                   ELSE /\ Return(Err(Error("parse_failed", parsed.err)))
                        /\ UNCHANGED events
    /\ UNCHANGED <<backend, probe, total_duration, mode, chunk_starts, i,
                   completed_chunks, all_segments, windows, files>>
    /\ UNCHANGED returned
    /\ UNCHANGED <<mergeVars, parseVars, repairVars, queueVars>>

\* ai_service.chat returns: Err, or a content that is parsed once (line 832).
KimiChatReturns ==
    /\ pc = "kimi_chat"
    /\ kimi_calls' = kimi_calls + 1
    /\ \E outcome \in {"chat_err"} \cup Contents :
          IF outcome = "chat_err"
          THEN /\ Return(Err(Error("chat_err", "")))
               /\ UNCHANGED events
          ELSE \E parsed \in {Parsed(outcome)} :
               \E segs \in {transcription_to_segments(parsed.segments)} :
                   IF parsed.ok
                   THEN /\ Emit(Ev("done", None, None, Some(Len(segs))))
                        /\ Return(Ok(segs))
                   ELSE /\ Return(Err(Error("parse_failed", parsed.err)))
                        /\ UNCHANGED events
    /\ UNCHANGED <<backend, probe, total_duration, mode, chunk_starts, i,
                   completed_chunks, all_segments, windows, files>>
    /\ UNCHANGED returned
    /\ UNCHANGED <<mergeVars, parseVars, repairVars, queueVars>>

----------------------------------------------------------------------------
(* One run of the pipeline *)

Next ==
    \/ Start
    \/ ProbeReturns
    \/ SelectMode
    \/ StartRound
    \/ \E w \in DOMAIN windows : SliceReturns(w)
    \/ \E w \in DOMAIN windows : WindowTranscribeAttempt(w)
    \/ \E w \in DOMAIN windows : RetrySleep(w)
    \/ JoinRound
    \/ MergeAndFinish
    \/ ExtractAudioReturns
    \/ SingleTranscribeAttempt
    \/ CompressReturns
    \/ KimiChatReturns

Spec == Init /\ [][Next]_vars


----------------------------------------------------------------------------
(* The merge engine applied to an arbitrary list, and again to its output *)

MaxSegs == 3

\* Segments the lists are drawn from: starts 0, 4, 5, 15 and 16 s apart from
\* one another by less than 5 s, exactly 5 s, exactly 15 s and more than 15 s;
\* equal, padded, 60%-similar texts; a zero-length segment; missing timestamps.
SegUniverse ==
    { Seg(Some(0), Some(20), TextHello),
      Seg(Some(0), Some(20), TextHalf),
      Seg(Some(4), Some(8), TextHello),
      Seg(Some(4), Some(8), TextHelloPadded),
      Seg(Some(5), Some(9), TextHello),
      Seg(Some(5), Some(9), TextHalf),
      Seg(Some(5), Some(5), TextHello),
      Seg(Some(15), Some(19), TextHello),
      Seg(Some(16), Some(20), TextHello),
      Seg(Some(16), Some(20), TextHalf),
      Seg(None, Some(9), TextHello),
      Seg(Some(0), None, TextHello) }

SeqsUpTo(S, n) == UNION {[1..k -> S] : k \in 0..n}

PipeOff ==
    /\ pc = "off"
    /\ backend = "gemini"
    /\ probe = None
    /\ total_duration = None
    /\ mode = "none"
    /\ events = <<>>
    /\ chunk_starts = <<>>
    /\ i = 0
    /\ completed_chunks = 0
    /\ all_segments = <<>>
    /\ windows = NoWindows
    /\ files = {}
    /\ kimi_calls = 0
    /\ result = Pending
    /\ returned = <<>>

MergeInit ==
    /\ PipeOff
    /\ QueueOff
    /\ RepairOff
    /\ ParseOff
    /\ m_pc = "input"
    /\ m_in \in SeqsUpTo(SegUniverse, MaxSegs)
    /\ m_out = <<>>
    /\ m_again = <<>>

MergeRun ==
    /\ m_pc = "input"
    /\ m_out' = MergeEngine(m_in)
    /\ m_pc' = "merged"
    /\ UNCHANGED <<m_in, m_again>>
    /\ UNCHANGED <<pipeVars, parseVars, repairVars, queueVars>>

MergeRerun ==
    /\ m_pc = "merged"
    /\ m_again' = MergeEngine(m_out)
    /\ m_pc' = "remerged"
    /\ UNCHANGED <<m_in, m_out>>
    /\ UNCHANGED <<pipeVars, parseVars, repairVars, queueVars>>

MergeNext == MergeRun \/ MergeRerun

SpecMerge == MergeInit /\ [][MergeNext]_vars


----------------------------------------------------------------------------
(* The response parser applied to an arbitrary text *)

\* What precedes the payload of an answer.
TextPrefixes ==
    { <<>>,    \* nothing
      <<"z", "z", " ">>,    \* zz 
      <<Tick, Tick, Tick, "j", "s", "o", "n", "\n">>,    \* ~~~json\n
      <<Tick, Tick, Tick, "\n">>,    \* ~~~\n
      <<Tick, Tick, Tick>>,    \* ~~~
      <<" ">> }    \* a space

\* The payload.
TextCores ==
    { <<>>,    \* nothing
      <<"z", "z">>,    \* zz
      <<"{", "\"", "s", "e", "g", "m", "e", "n", "t", "s", "\"", ":", "[",
        "]", "}">>,    \* {"segments":[]}
      <<"{", "\"", "s", "e", "g", "m", "e", "n", "t", "s", "\"", ":", "[",
        "{", "\"", "s", "t", "a", "r", "t", "\"", ":", "\"", "0", "0", ":",
        "2", "5", "\"", ",", "\"", "c", "o", "n", "t", "e", "n", "t", "\"",
        ":", "\"", "z", "z", "\"", "}", "]", "}">>,    \* {"segments":[{"start":"00:25","content":"zz"}]}
      <<"{", "\"", "a", "\"", ":", "[", "]", "}">>,    \* {"a":[]}
      <<"{", "\"", "s", "e", "g", "m", "e", "n", "t", "s", "\"", ":", "[",
        "]", ",", "}">>,    \* {"segments":[],}
      <<"{", "\"", "s", "e", "g", "m", "e", "n", "t", "s", "\"", ":", "[",
        "{", "\"", "s", "t", "a", "r", "t", "\"", ":", "\"", "0", "0", ":",
        "2", "5", "\"", ",", "\"", "c", "o", "n", "t", "e", "n", "t", "\"",
        ":", "\"", "z", "z", "\"", "}", "]", ",", "\"", "x", "\"", ":", "\"",
        Tick, Tick, Tick, Tick, Tick, Tick, "\"", "}">>,    \* {"segments":[{"start":"00:25","content":"zz"}],"x":"~~~~~~"}
      <<"{", "\"", "x", "\"", ":", "\"", Tick, Tick, Tick, Tick, Tick, Tick,
        "\"", "}">>,    \* {"x":"~~~~~~"}
      <<"{", "\"", "s", "e", "g", "m", "e", "n", "t", "s", "\"", ":", "[",
        "]", ",", "\"", "x", "\"", ":", "\"", Tick, Tick, Tick, "z", "z",
        Tick, Tick, Tick, "\"", "}">>,    \* {"segments":[],"x":"~~~zz~~~"}
      <<"[", "]">>,    \* []
      <<"{", "\"", "s", "e", "g", "m", "e", "n", "t", "s", "\"", ":", "n",
        "u", "l", "l", ",", "\"", "x", "\"", ":", "\"", Tick, Tick, Tick,
        Tick, Tick, Tick, "\"", "}">> }    \* {"segments":null,"x":"~~~~~~"}

\* What follows the payload.
TextSuffixes ==
    { <<>>,    \* nothing
      <<"\n", Tick, Tick, Tick>>,    \* \n~~~
      <<Tick, Tick, Tick>>,    \* ~~~
      <<" ", "z", "z">>,    \*  zz
      <<"}">>,    \* }
      <<"\n", Tick, Tick, Tick, " ", "z", "z", " ", Tick, Tick, Tick>> }    \* \n~~~ zz ~~~

\* The answers the parser is applied to.
ResponseTexts ==
    {a \o b \o c : a \in TextPrefixes, b \in TextCores, c \in TextSuffixes}

ParseInit ==
    /\ PipeOff
    /\ QueueOff
    /\ RepairOff
    /\ MergeOff
    /\ p_pc = "input"
    /\ p_content \in ResponseTexts
    /\ p_json = <<>>
    /\ p_result = ParsedErr("not_run")

\* let mut json_str = extract_json(content)
ParseExtract ==
    /\ p_pc = "input"
    /\ p_json' = extract_json(p_content)
    /\ p_pc' = "extracted"
    /\ UNCHANGED <<p_content, p_result>>
    /\ UNCHANGED <<pipeVars, mergeVars, repairVars, queueVars>>

\* parse_transcription_response(content) returns
ParseRun ==
    /\ p_pc = "extracted"
    /\ p_result' = parse_transcription_response(p_content)
    /\ p_pc' = "parsed"
    /\ UNCHANGED <<p_content, p_json>>
    /\ UNCHANGED <<pipeVars, mergeVars, repairVars, queueVars>>

ParseNext == ParseExtract \/ ParseRun

SpecParse == ParseInit /\ [][ParseNext]_vars

----------------------------------------------------------------------------
(* AIService::repair_json applied to one text                               *)

\* The texts repair_json is applied to: {"s":[{"c":V a}b]c} for a value V
\* and three separators a, b, c, each nothing, a comma, a comma with
\* whitespace around it, or two commas.
RepairTexts ==
    LET values == { <<"\"", "h", "i", "\"">>,                        \* "hi"
                    <<"1">>,                                         \* 1
                    <<"\"", "h", ",", "}", "\"">>,                   \* "h,}"
                    <<"\"", "h", ",", " ", "]", "\"">>,              \* "h, ]"
                    <<"\"", Curly.open, "h", Curly.close, "\"">>,      \* "<h>"
                    <<Curly.open, "h", "i", Curly.close>> }            \* <hi>
        seps == { <<>>, <<",">>, <<",", " ">>, <<" ", ",", "\n", "\t">>,
                  <<",", ",">> }
    IN  { <<"{", "\"", "s", "\"", ":", "[", "{", "\"", "c", "\"", ":">>
             \o v \o a \o <<"}">> \o b \o <<"]">> \o c \o <<"}">> :
          v \in values, a \in seps, b \in seps, c \in seps }

RepairInit ==
    /\ PipeOff
    /\ QueueOff
    /\ MergeOff
    /\ ParseOff
    /\ r_pc = "input"
    /\ r_text \in RepairTexts
    /\ r_out = <<>>

\* let repaired_json = Self::repair_json(&json_str)
RepairRun ==
    /\ r_pc = "input"
    /\ r_out' = repair_json(r_text)
    /\ r_pc' = "repaired"
    /\ UNCHANGED r_text
    /\ UNCHANGED <<pipeVars, mergeVars, parseVars, queueVars>>

SpecRepair == RepairInit /\ [][RepairRun]_vars

----------------------------------------------------------------------------
(* build_due_vocabulary_queue (commands.rs, lines 453-480)                   *)

\* parse_local_date: NaiveDate::parse_from_str(s, "%Y-%m-%d") for the texts
\* used here, which are zero-padded dates or hold no digit at all.  A parsed
\* date is given as a number that grows with the calendar date.
parse_local_date(date_local) ==
    LET s == date_local
        shaped == /\ Len(s) = 10
                  /\ \A k \in {1, 2, 3, 4, 6, 7, 9, 10} : s[k] \in Digits
                  /\ s[5] = "-"
                  /\ s[8] = "-"
        y == DecimalValue(SubSeq(s, 1, 4), 0)
        m == DecimalValue(SubSeq(s, 6, 7), 0)
        d == DecimalValue(SubSeq(s, 9, 10), 0)
        leap == (y % 4 = 0 /\ y % 100 # 0) \/ y % 400 = 0
        days == IF m \in {4, 6, 9, 11} THEN 30
                ELSE IF m = 2 THEN (IF leap THEN 29 ELSE 28)
                ELSE 31
    IN  IF shaped /\ m \in 1..12 /\ d \in 1..days
        THEN Some(y * 372 + (m - 1) * 31 + d)
        ELSE None

\* parse_local_date(due_date).map(|due| due <= target_date).unwrap_or(true)
is_due_on_or_before(due_date, target_date) ==
    LET due == parse_local_date(due_date)
    IN  IF IsSome(due) THEN due[1] <= target_date ELSE TRUE

\* str::cmp on the characters used here (byte order): -1, 0 or 1.
StrCmp(a, b) ==
    LET code(c) == CASE c \in Digits -> 48 + DigitValue(c)
                     [] c = "-" -> 45
                     [] c = "?" -> 63
                     [] c = "T" -> 84
        n == Min(Len(a), Len(b))
        diff == {k \in 1..n : a[k] # b[k]}
        first == CHOOSE k \in diff : \A j \in diff : k <= j
    IN  IF diff # {}
        THEN (IF code(a[first]) < code(b[first]) THEN -1 ELSE 1)
        ELSE IF Len(a) < Len(b) THEN -1
        ELSE IF Len(a) > Len(b) THEN 1
        ELSE 0

\* Mutant of sort_by_due_then_last_review: the last review time is ignored.
sort_by_due_only(a, b) == StrCmp(a.due_date, b.due_date)

\* sort_by_due_then_last_review: due_date as text, then last_reviewed_at as
\* Option<String> (None before Some).
sort_by_due_then_last_review(a, b) ==
    LET x == a.last_reviewed_at
        y == b.last_reviewed_at
        by_due == StrCmp(a.due_date, b.due_date)
    IN  IF by_due # 0 THEN by_due
        ELSE IF x = None /\ y = None THEN 0
        ELSE IF x = None THEN -1
        ELSE IF y = None THEN 1
        ELSE StrCmp(x[1], y[1])

\* v.sort_by(sort_by_due_then_last_review), a stable sort: an element moves
\* behind the elements that compare less and the equal ones that came before
\* it.
sort_by(v) ==
    LET before(k) == {j \in 1..Len(v) :
                         \/ sort_by_due_then_last_review(v[j], v[k]) < 0
                         \/ /\ sort_by_due_then_last_review(v[j], v[k]) = 0
                            /\ j < k}
        at(r) == CHOOSE k \in 1..Len(v) : Cardinality(before(k)) = r - 1
    IN  [r \in 1..Len(v) |-> v[at(r)]]

\* build_due_vocabulary_queue
build_due_vocabulary_queue(all, pack_id, date_local, new_limit, review_limit) ==
    LET target_date == parse_local_date(date_local)
        new_max == Max(new_limit, 0)
        review_max == Max(review_limit, 0)
        InPack(fav) == \E k \in 1..Len(fav.pack_ids) : fav.pack_ids[k] = pack_id
        IsDue(fav) == is_due_on_or_before(fav.due_date, target_date[1])
        IsNewLearning(fav) == fav.srs_state = "new" \/ fav.srs_state = "learning"
        IsReview(fav) == ~IsNewLearning(fav)
        in_pack == IF pack_id # "all" THEN SelectSeq(all, InPack)
                   ELSE all
        due == SelectSeq(in_pack, IsDue)
        new_learning == sort_by(SelectSeq(due, IsNewLearning))
        review == sort_by(SelectSeq(due, IsReview))
    IN  IF ~IsSome(target_date)
        THEN [ok |-> FALSE, queue |-> <<>>]
        ELSE [ok |-> TRUE,
              queue |-> SubSeq(new_learning, 1, Min(new_max, Len(new_learning)))
                        \o SubSeq(review, 1, Min(review_max, Len(review)))]

\* Longest list of items given to the queue.
MaxItems == 3

\* The arguments: lists of up to MaxItems items out of eight (an item has the
\* fields the queue reads: due_date is a text, last_reviewed_at an Option of
\* a text, pack_ids a Vec), a pack id, a target date and the two limits.
QueueInit ==
    /\ PipeOff
    /\ MergeOff
    /\ ParseOff
    /\ RepairOff
    /\ q_pc = "input"
    /\ q_out = <<>>
    /\ LET Day(dd) == <<"2", "0", "2", "6", "-", "0", "2", "-">> \o dd
           d15 == Day(<<"1", "5">>)
           d16 == Day(<<"1", "6">>)
           d17 == Day(<<"1", "7">>)
           unknown == <<"?">>
           t14 == Some(<<"1", "4", "T", "1", "0">>)
           t15 == Some(<<"1", "5", "T", "1", "0">>)
           Vocab(id, state, due, last, packs) ==
               [id |-> id, srs_state |-> state, due_date |-> due,
                last_reviewed_at |-> last, pack_ids |-> packs]
           items == { Vocab("a", "review", d16, t15, <<"p1">>),
                      Vocab("b", "new", d16, None, <<"p1">>),
                      Vocab("c", "learning", d15, t14, <<"p2", "p1">>),
                      Vocab("d", "review", d15, t14, <<"p1">>),
                      Vocab("e", "new", d17, None, <<"p1">>),
                      Vocab("f", "new", d16, None, <<"p2">>),
                      Vocab("g", "review", unknown, None, <<"p1">>),
                      Vocab("h", "learning", d15, t15, <<"p1">>) }
       IN  q_args \in [all : SeqsUpTo(items, MaxItems),
                       pack_id : {"p1", "all"},
                       date_local : {d16, unknown},
                       new_limit : {-1, 1, 2},
                       review_limit : {0, 1, 2}]

\* build_due_vocabulary_queue(all, pack_id, date_local, new_limit,
\* review_limit) returns
QueueRun ==
    /\ q_pc = "input"
    /\ q_out' = build_due_vocabulary_queue(q_args.all, q_args.pack_id,
                                           q_args.date_local, q_args.new_limit,
                                           q_args.review_limit)
    /\ q_pc' = "returned"
    /\ UNCHANGED q_args
    /\ UNCHANGED <<pipeVars, mergeVars, parseVars, repairVars>>

SpecQueue == QueueInit /\ [][QueueRun]_vars


----------------------------------------------------------------------------
(* Properties *)

Windows == DOMAIN windows

LogOf(w) == windows[w].log

\* Positions of the log of w that hold a step op.
StepsOf(w, op) == {k \in 1..Len(LogOf(w)) : LogOf(w)[k].op = op}

\* C1: per window the backend is called at most 3 times; attempt n+1 directly
\* follows a 2-second sleep that directly follows the parse failure of attempt
\* n; once an attempt parses, no call follows and the window holds that
\* attempt's segments; after 3 parse failures the window has failed with an
\* error that carries the parse error of the third attempt.
C1_RetryController ==
    \A w \in Windows :
        LET L == LogOf(w)
            win == windows[w]
        IN  /\ Cardinality(StepsOf(w, "call")) <= 3
            /\ \A k \in StepsOf(w, "call") :
                  /\ L[k].n = Cardinality({j \in StepsOf(w, "call") : j <= k})
                  /\ L[k].n > 1 =>
                        /\ k >= 3
                        /\ L[k - 1].op = "sleep" /\ L[k - 1].n = 2
                        /\ L[k - 2].op = "parse_fail"
                        /\ L[k - 2].n = L[k].n - 1
            /\ \A k \in StepsOf(w, "sleep") :
                  k < Len(L) => L[k + 1].op = "call"
            /\ \A k \in StepsOf(w, "parse_ok") :
                  /\ \A j \in StepsOf(w, "call") : j < k
                  /\ win.wpc = "done"
                  /\ win.segments =
                        IF mode = "Chunked"
                        THEN ShiftSegments(
                                 Parsed(L[k].err).segments,
                                 win.start)
                        ELSE Parsed(L[k].err).segments
            /\ \A k \in StepsOf(w, "parse_fail") :
                  L[k].n = 3 =>
                      /\ k = Len(L)
                      /\ win.wpc = "failed"
                      /\ win.error = Error("retries_exhausted", L[k].err)

\* C1 witness: a chunk window whose three attempts all failed to parse, the
\* first with another parse error than the last.
C1_Witness ==
    \E w \in Windows :
        /\ windows[w].wpc = "failed"
        /\ Cardinality(StepsOf(w, "call")) = 3
        /\ Cardinality(StepsOf(w, "sleep")) = 2
        /\ \E k \in StepsOf(w, "parse_fail") :
              LogOf(w)[k].n = 1 /\ LogOf(w)[k].err = "json_syntax"
        /\ windows[w].error = Error("retries_exhausted", "no_segments")

\* C2: at most 2 windows are in flight; window k+2 (k even) is not started
\* before windows k and k+1 have both returned; with an odd number of planned
\* offsets the last window runs alone.
C2_PairwiseConcurrency ==
    /\ Cardinality({w \in Windows : InFlight(w)}) <= 2
    /\ \A w \in Windows :
          (w % 2 = 0 /\ w + 2 \in Windows /\ windows[w + 2].wpc # "idle")
              => Completed(w) /\ Completed(w + 1)
    /\ \A w \in Windows :
          (w % 2 = 0 /\ w + 1 \in Windows /\ windows[w + 1].wpc # "idle")
              => windows[w].wpc # "idle"
    /\ (mode = "Chunked" /\ Len(chunk_starts) % 2 = 1
            /\ InFlight(Len(chunk_starts) - 1))
          => {w \in Windows : InFlight(w)} = {Len(chunk_starts) - 1}

\* C2 witness: three planned offsets, the first pair has returned and the
\* trailing window is in flight.
C2_Witness ==
    /\ mode = "Chunked"
    /\ Len(chunk_starts) = 3
    /\ InFlight(2)
    /\ windows[2].wpc = "call"

\* C3: a chunk window that created its clip and then returned, with a result
\* or with a network error, an HTTP error or exhausted parse retries, has left
\* no clip on disk.
C3_ClipDeletedOnEveryExit ==
    \A w \in Windows :
        (/\ mode = "Chunked"
         /\ StepsOf(w, "slice") # {}
         /\ \/ windows[w].wpc = "done"
            \/ /\ windows[w].wpc = "failed"
               /\ windows[w].error.kind \in
                      {"net_err", "http_err", "retries_exhausted"})
            => windows[w].clip \notin files

\* C4 (state part): a returned result holds segments only if it is Ok, an Ok
\* chunked result has consumed every planned window, and a chunked job that
\* ended with a failed window returned an error.
C4_NoPartialState ==
    /\ result.segments # <<>> => result.status = "ok"
    /\ (mode = "Chunked" /\ result.status = "ok") =>
          /\ i = Len(chunk_starts)
          /\ \A w \in Windows : windows[w].wpc = "joined"
    /\ (mode = "Chunked" /\ pc = "done"
            /\ \E w \in Windows : windows[w].wpc = "failed")
          => result = Err(result.error) /\ result.error # NoError

\* C4 (step part): the step that joins a round containing a failed window
\* returns a single error and no segments.
C4_NoPartialStep ==
    (pc = "join" /\ pc' # "join" /\ \E w \in Windows : windows[w].wpc = "failed")
        => /\ pc' = "done"
           /\ result'.status = "err"
           /\ result'.segments = <<>>
           /\ \E w \in Windows : windows[w].wpc = "failed"
                                 /\ result'.error = windows[w].error

\* C4: if any window of a chunked job fails the pipeline returns one error and
\* no segments, also when earlier windows had completed; the caller sees a
\* complete sequence or a failure, never a partial sequence.
C4_AllOrNothing == [](C4_NoPartialState) /\ [][C4_NoPartialStep]_vars

\* C4 witness: the first pair completed with segments, then the third window
\* failed and the job returned an error.
C4_Witness ==
    /\ mode = "Chunked"
    /\ pc = "done"
    /\ all_segments # <<>>
    /\ Len(chunk_starts) >= 3
    /\ windows[0].wpc = "joined"
    /\ windows[2].wpc = "failed"
    /\ result.status = "err"

\* C5: a network failure or non-success HTTP status on any attempt ends the
\* window at once: it is the last step of the window, which has failed with
\* that error; no call and no sleep follows.
C5_RequestErrorNotRetried ==
    \A w \in Windows :
        \A k \in StepsOf(w, "net_err") \cup StepsOf(w, "http_err") :
            /\ k = Len(LogOf(w))
            /\ windows[w].wpc = "failed"
            /\ windows[w].error = Error(LogOf(w)[k].op, "")

\* C5 witness: a window whose second attempt, made after a parse failure and
\* the sleep, ended in an HTTP error status.
C5_Witness ==
    \E w \in Windows :
        /\ windows[w].wpc = "failed"
        /\ \E k \in StepsOf(w, "http_err") : LogOf(w)[k].n = 2
        /\ Cardinality(StepsOf(w, "sleep")) = 1

PhasesEmitted == {events[k].phase : k \in 1..Len(events)}

\* C6 (state part): once the probe has succeeded and the mode is chosen, it is
\* WholeVideo for the video-capable backend, else Chunked iff the duration
\* exceeds 600 s, else SingleShot; WholeVideo slices no window and runs
\* neither the orchestrator nor the merge.
C6_ModeState ==
    /\ mode # "none" =>
          /\ IsSome(total_duration)
          /\ mode = IF backend = "kimi_k25" THEN "WholeVideo"
                    ELSE IF total_duration[1] > 600 THEN "Chunked"
                    ELSE "SingleShot"
    /\ (pc \notin {"init", "probe", "probed"} /\ IsSome(total_duration))
          => mode # "none"
    /\ mode = "WholeVideo" =>
          /\ windows = NoWindows
          /\ chunk_starts = <<>>
          /\ all_segments = <<>>
          /\ PhasesEmitted \cap {"chunked", "chunk", "merge", "audio",
                                 "transcribe"} = {}
          /\ \A f \in files : f[1] = "compressed"

\* C6 (step part): the mode is entered once and never left.
C6_ModeStep == mode # "none" => mode' = mode

\* C6: after a successful probe exactly one mode is entered, by the rule above.
C6_ModeSelection == [](C6_ModeState) /\ [][C6_ModeStep]_vars

\* C6 witness: a probed duration of exactly 600 s on an audio backend runs
\* single-shot.
C6_Witness ==
    /\ total_duration = Some(600)
    /\ mode = "SingleShot"
    /\ pc = "single_transcribe"

\* C7 as stated: 1800 s is planned as the three offsets 0, 570, 1140.
C7_ThreeChunks ==
    (mode = "Chunked" /\ total_duration = Some(1800))
        => chunk_starts = <<0, 570, 1140>>

\* C7 amended: 1800 s is planned as the four offsets 0, 570, 1140, 1710; the
\* last window is 90 s long.
C7_FourChunks ==
    (mode = "Chunked" /\ total_duration = Some(1800))
        => /\ chunk_starts = <<0, 570, 1140, 1710>>
           /\ windows[3].dur = 90

\* C7 witness: a chunked job of 1800 s whose last window has been started.
C7_Witness ==
    /\ mode = "Chunked"
    /\ total_duration = Some(1800)
    /\ InFlight(Len(chunk_starts) - 1)


OutIdx == 1..Len(m_out)

\* b's overlap with a exceeds 30% of b's duration and the texts are more than
\* 60% similar.
OverlapDuplicate(a, b) ==
    /\ RatioGtTenths(overlap_ratio(b, a), 3)
    /\ RatioGtTenths(text_similarity(a.content, b.content), 6)

MergeApplied == m_pc \in {"merged", "remerged"}

\* C8 as stated: any two output segments a, b with a.start_time < b.start_time
\* have an overlap ratio of b against a of at most 0.3 or a similarity of at
\* most 0.6, whatever the distance of their start times.
C8_PostconditionAnyDistance ==
    MergeApplied =>
        \A p \in OutIdx, q \in OutIdx :
            m_out[p].start_time[1] < m_out[q].start_time[1]
                => ~OverlapDuplicate(m_out[p], m_out[q])

\* C8 amended: the same for any two output segments whose start times are at
\* most 15 s apart.
C8_PostconditionWithin15 ==
    MergeApplied =>
        \A p \in OutIdx, q \in OutIdx :
            (/\ m_out[p].start_time[1] < m_out[q].start_time[1]
             /\ m_out[q].start_time[1] - m_out[p].start_time[1] <= 15)
                => ~OverlapDuplicate(m_out[p], m_out[q])

\* C8 witness: a duplicate was discarded, and two segments that overlap fully
\* and start 5 s apart both survive because their texts are only 60% similar.
C8_Witness ==
    /\ m_pc = "merged"
    /\ m_in = <<Seg(Some(0), Some(20), TextHello),
                Seg(Some(5), Some(9), TextHello),
                Seg(Some(5), Some(9), TextHalf)>>
    /\ m_out = <<Seg(Some(0), Some(20), TextHello),
                 Seg(Some(5), Some(9), TextHalf)>>

\* C9: no two distinct output segments start less than 5 s apart with a text
\* similarity above 0.5.
C9_NoCloseSimilarPair ==
    MergeApplied =>
        \A p \in OutIdx, q \in OutIdx :
            p # q =>
                ~(/\ Abs(m_out[p].start_time[1] - m_out[q].start_time[1]) < 5
                  /\ RatioGtTenths(
                         text_similarity(m_out[p].content, m_out[q].content), 5))

\* C9 witness: of two segments starting 1 s apart whose texts are 60% similar
\* (above 0.5, not above 0.6) only the earlier one is kept.
C9_Witness ==
    /\ m_pc = "merged"
    /\ m_in = <<Seg(Some(5), Some(9), TextHalf),
                Seg(Some(4), Some(8), TextHello)>>
    /\ m_out = <<Seg(Some(4), Some(8), TextHello)>>

\* C10: the merge engine applied to its own output returns that output, the
\* same segments in the same order.
C10_Idempotent == m_pc = "remerged" => m_again = m_out

\* C10 witness: an unsorted input holding a duplicate was reduced to two
\* segments in start order, and the engine has run again on them.
C10_Witness ==
    /\ m_pc = "remerged"
    /\ m_in = <<Seg(Some(16), Some(20), TextHello),
                Seg(Some(0), Some(20), TextHello),
                Seg(Some(4), Some(8), TextHelloPadded)>>
    /\ m_out = <<Seg(Some(0), Some(20), TextHello),
                 Seg(Some(16), Some(20), TextHello)>>
    /\ m_again = m_out

OutSegs == result.segments

\* Positions of the returned FinalSegments that start at time t.
OutAt(t) == {k \in 1..Len(OutSegs) : OutSegs[k].start_time = Some(t)}

\* The copy window w produces of a sentence spoken 595-599 s after its start,
\* and the copy the next window produces of it at its local 25-29 s.
CopyOfEarlier(w) ==
    Seg(Some(chunk_starts[w + 1] + 595), Some(chunk_starts[w + 1] + 599),
        TextHello)

CopyOfLater(w) ==
    Seg(Some(chunk_starts[w + 2] + 25), Some(chunk_starts[w + 2] + 29),
        TextHelloPadded)

InAccumulator(seg) == \E k \in 1..Len(all_segments) : all_segments[k] = seg

BothCopies(w) ==
    /\ w + 1 \in Windows
    /\ InAccumulator(CopyOfEarlier(w))
    /\ InAccumulator(CopyOfLater(w))

\* C11: when windows w and w+1 of a finished chunked job both produced the
\* sentence of their overlap region, the two copies have the same global start
\* and end and a similarity above 0.6, and the returned sequence holds exactly
\* one segment at that start, with the text of window w's copy; nothing in the
\* statement depends on the order in which the two windows returned.
C11_EarlierWindowWins ==
    (mode = "Chunked" /\ result.status = "ok") =>
        \A w \in Windows :
            BothCopies(w) =>
                LET a == CopyOfEarlier(w)
                    b == CopyOfLater(w)
                IN  /\ a.start_time = b.start_time
                    /\ a.end_time = b.end_time
                    /\ RatioGtTenths(text_similarity(a.content, b.content), 6)
                    /\ Cardinality(OutAt(a.start_time[1])) = 1
                    /\ \A k \in OutAt(a.start_time[1]) :
                          /\ OutSegs[k].text = a.content
                          /\ OutSegs[k].text # b.content
                          /\ OutSegs[k].end_time = a.end_time

\* C11 witness: a two-window job in which window 1 returned before window 0,
\* both with the overlap sentence, and only window 0's copy was returned.
C11_Witness ==
    /\ mode = "Chunked"
    /\ result.status = "ok"
    /\ chunk_starts = <<0, 570>>
    /\ returned = <<1, 0>>
    /\ BothCopies(0)
    /\ Cardinality(OutAt(595)) = 1
    /\ \E k \in OutAt(595) : OutSegs[k].text = TextHello

\* C12: a window that returned Ok in a chunked job holds, for every segment of
\* the parsed answer, a segment with start and end increased by the window's
\* planned offset and with the same content and speaker; its
\* first_segment_start and last_segment_end are the start of its first and the
\* end of its last segment after the shift.
C12_OffsetAdditive ==
    \A w \in Windows :
        (mode = "Chunked" /\ windows[w].wpc = "done") =>
            \E k \in StepsOf(w, "parse_ok") :
                LET raw == Parsed(LogOf(w)[k].err).segments
                    T == chunk_starts[w + 1]
                    out == windows[w].segments
                IN  /\ Len(out) = Len(raw)
                    /\ \A n \in 1..Len(raw) :
                          /\ out[n].start_time = Some(raw[n].start_time[1] + T)
                          /\ out[n].end_time = Some(raw[n].end_time[1] + T)
                          /\ out[n].content = raw[n].content
                          /\ out[n].speaker = raw[n].speaker
                    /\ windows[w].first_segment_start =
                          IF raw = <<>> THEN None
                          ELSE Some(raw[1].start_time[1] + T)
                    /\ windows[w].last_segment_end =
                          IF raw = <<>> THEN None
                          ELSE Some(raw[Len(raw)].end_time[1] + T)

\* C12 witness: the window at offset 570 returned the two segments the backend
\* placed at 595-599 s and 10-12 s of the clip.
C12_Witness ==
    /\ mode = "Chunked"
    /\ 1 \in Windows
    /\ windows[1].wpc = "done"
    /\ windows[1].segments = <<Seg(Some(1165), Some(1169), TextHello),
                               Seg(Some(580), Some(582), TextOther)>>
    /\ windows[1].first_segment_start = Some(1165)
    /\ windows[1].last_segment_end = Some(582)

SortedByStart(segs) ==
    \A p \in 1..Len(segs), q \in 1..Len(segs) :
        p < q => segs[p].start_time[1] <= segs[q].start_time[1]

NoMissingTimestamp(segs) ==
    \A k \in 1..Len(segs) : IsSome(segs[k].start_time) /\ IsSome(segs[k].end_time)

\* C13 as stated: the sequence returned by a successful run, in any mode, has
\* no missing timestamp and is sorted ascending by start_time.
C13_SortedEveryMode ==
    result.status = "ok" =>
        NoMissingTimestamp(OutSegs) /\ SortedByStart(OutSegs)

\* C13 amended: the sequence returned by a successful run has no missing
\* timestamp, and the sequence returned by a successful chunked run is sorted
\* ascending by start_time.
C13_SortedChunked ==
    result.status = "ok" =>
        /\ NoMissingTimestamp(OutSegs)
        /\ mode = "Chunked" => SortedByStart(OutSegs)

\* C13 witness: a chunked job whose first window answered with the later
\* segment first returned the two segments in start order.
C13_Witness ==
    /\ mode = "Chunked"
    /\ result.status = "ok"
    /\ Len(all_segments) >= 2
    /\ Len(OutSegs) >= 2
    /\ OutSegs[1].start_time = Some(10)
    /\ OutSegs[2].start_time = Some(595)
    /\ OutSegs[1].order = 0 /\ OutSegs[2].order = 1


DoneEvents == {k \in 1..Len(events) : events[k].phase = "done"}

\* C14: a run that returned Ok, in any of the three modes, has emitted exactly
\* one "done" event; it is the last event and its count is the number of
\* FinalSegments returned.  A run that has not returned Ok, a failed one in
\* particular, has emitted no "done" event.
C14_DoneEvent ==
    /\ result.status = "ok" =>
          /\ mode \in {"SingleShot", "Chunked", "WholeVideo"}
          /\ DoneEvents = {Len(events)}
          /\ events[Len(events)].count = Some(Len(OutSegs))
    /\ result.status # "ok" => DoneEvents = {}

\* C14 witness: a chunked run in which the merge discarded a duplicate
\* returned Ok; the count of "done" is that of the segments returned.
C14_Witness ==
    /\ mode = "Chunked"
    /\ result.status = "ok"
    /\ Len(OutSegs) >= 1
    /\ Len(OutSegs) < Len(all_segments)
    /\ DoneEvents = {Len(events)}
    /\ events[Len(events)].count = Some(Len(OutSegs))

IsChunkEvent(e) == e.phase = "chunk"

ChunkEvents == SelectSeq(events, IsChunkEvent)

\* C15: every "chunk" event has total = number of planned windows and
\* 0 <= current <= total; current never decreases from one "chunk" event to
\* the next; when a round has been joined the last event is a "chunk" event
\* whose current is the number of windows completed so far; the last "chunk"
\* event of a successful run has current = total; no other mode emits one.
C15_ChunkProgress ==
    LET n == Len(chunk_starts)
        ce == ChunkEvents
    IN  /\ mode # "Chunked" => ce = <<>>
        /\ \A k \in 1..Len(ce) :
              /\ ce[k].total = Some(n)
              /\ IsSome(ce[k].current)
              /\ ce[k].current[1] >= 0 /\ ce[k].current[1] <= n
              /\ k > 1 => ce[k - 1].current[1] <= ce[k].current[1]
        /\ (mode = "Chunked" /\ pc = "round" /\ i > 0) =>
              /\ events[Len(events)].phase = "chunk"
              /\ events[Len(events)].current =
                    Some(Cardinality({w \in Windows : windows[w].wpc = "joined"}))
              /\ events[Len(events)].current = Some(completed_chunks)
        /\ (mode = "Chunked" /\ result.status = "ok") =>
              /\ ce # <<>>
              /\ ce[Len(ce)].current = Some(n)

\* C15 witness: a successful job of three windows reported 0 before the pair,
\* 2 after it, 2 before the trailing window and 3 after it.
C15_Witness ==
    /\ mode = "Chunked"
    /\ result.status = "ok"
    /\ Len(chunk_starts) = 3
    /\ [k \in 1..Len(ChunkEvents) |-> ChunkEvents[k].current]
          = <<Some(0), Some(2), Some(2), Some(3)>>

\* The one position of the log of w that holds op, or 0.
StepAt(w, op) ==
    IF Cardinality(StepsOf(w, op)) = 1
    THEN CHOOSE k \in StepsOf(w, op) : TRUE
    ELSE 0

\* Slice, then the attempts of the retry loop up to the one that parsed.
SliceThenTranscribe(w) ==
    /\ StepAt(w, "slice") = 1
    /\ StepAt(w, "parse_ok") > 1
    /\ \A k \in 2..StepAt(w, "parse_ok") :
          LogOf(w)[k].op \in {"call", "parse_fail", "sleep", "parse_ok"}

C17_ClipsDistinct ==
    /\ \A w \in Windows, v \in Windows :
          w # v => windows[w].clip # windows[v].clip
    /\ mode = "Chunked" =>
          /\ \A w \in Windows : windows[w].clip = <<"chunk", w>>
          /\ \A w \in Windows :
                windows[w].wpc \in {"call", "sleep"} => windows[w].clip \in files
          /\ files \subseteq
                {windows[w].clip : w \in {v \in Windows : windows[v].wpc # "idle"}}

\* C17 (step part): while the windows of a round run, a step is the step of
\* one window; it changes that window's record and at most its own clip, and
\* leaves the other windows, their clips and the accumulator alone.
C17_WindowStepIsLocal ==
    (pc = "join" /\ pc' = "join") =>
        \E w \in Windows :
            /\ \A v \in Windows \ {w} : windows'[v] = windows[v]
            /\ (files' \ files) \cup (files \ files') \subseteq {windows[w].clip}
            /\ all_segments' = all_segments
            /\ <<i, completed_chunks, events, chunk_starts>>'
                  = <<i, completed_chunks, events, chunk_starts>>

\* C17: no two windows of a chunked job use the same clip path, so neither
\* window of a pair overwrites, reads or deletes the other's clip, and a
\* window's step touches nothing of another window; the accumulator is changed
\* by the orchestrator only.
C17_NoClipSharing == [](C17_ClipsDistinct) /\ [][C17_WindowStepIsLocal]_vars

\* C17 witness: window 0 has returned and deleted its clip while window 1 of
\* the same pair is still transcribing from its own.
C17_Witness ==
    /\ mode = "Chunked"
    /\ pc = "join"
    /\ i = 0
    /\ windows[0].wpc = "done"
    /\ windows[1].wpc = "call"
    /\ windows[1].retry_count = 1
    /\ files = {<<"chunk", 1>>}

\* C18: when the probe yields no duration, the run returns the probe's error
\* without choosing a mode: no window, no clip or compressed file, no backend
\* call, and no event other than "start".
C18_ProbeFailureIsFatal ==
    probe = None =>
        /\ pc \in {"init", "probe", "done"}
        /\ mode = "none"
        /\ total_duration = None
        /\ chunk_starts = <<>>
        /\ windows = NoWindows
        /\ files = {}
        /\ kimi_calls = 0
        /\ Len(events) <= 1
        /\ \A k \in 1..Len(events) : events[k] = Phase("start")
        /\ pc = "done" => result = Err(Error("duration_unavailable", ""))

\* C18 witness: a run whose probe found no duration has returned.
C18_Witness ==
    /\ probe = None
    /\ pc = "done"
    /\ result.status = "err"
    /\ events = <<Phase("start")>>


\* The answers that are empty or hold whitespace only.
BlankContents == {c \in Contents : trim(ResponseText(c)) = <<>>}

\* C19 (state part): the parser returns no segments, an empty full_text and no
\* error for the empty and the whitespace-only answer; a window that receives
\* such an answer, on any attempt, returns Ok without sleeping or calling
\* again, with zero segments and its retry count unchanged.
C19_EmptyIsOk ==
    /\ BlankContents = {"empty", "blank"}
    /\ \A c \in BlankContents : Parsed(c) = EmptyTranscription
    /\ \A w \in Windows :
          windows[w].wpc = "call" =>
              \A c \in BlankContents :
                  LET res == TranscribeAttemptResult(windows[w], c)
                  IN  /\ res.next = "return_ok"
                      /\ res.segments = <<>>
                      /\ res.retry_count = windows[w].retry_count
                      /\ res.error = NoError
    /\ \A w \in Windows :
          \A k \in StepsOf(w, "parse_ok") :
              LogOf(w)[k].err \in BlankContents =>
                  /\ windows[w].wpc = "done"
                  /\ windows[w].segments = <<>>
                  /\ windows[w].error = NoError
                  /\ \A j \in StepsOf(w, "call") \cup StepsOf(w, "sleep") : j < k

AnsweredBlank(w) ==
    \E k \in StepsOf(w, "parse_ok") : LogOf(w)[k].err \in BlankContents

\* C19 (step part): when the windows of a round have returned Ok, one of them
\* on an empty answer, the join goes on to the next round without an error;
\* the accumulator grows by the segments of the other windows only.
C19_JobContinues ==
    (/\ mode = "Chunked"
     /\ pc = "join" /\ pc' # "join"
     /\ \A w \in RoundWindows(i, Len(chunk_starts)) : windows[w].wpc = "done"
     /\ \E w \in RoundWindows(i, Len(chunk_starts)) : AnsweredBlank(w))
        => /\ pc' = "round"
           /\ result' = Pending
           /\ i' = i + Cardinality(RoundWindows(i, Len(chunk_starts)))
           /\ Len(all_segments') = Len(all_segments)
                 + (IF AnsweredBlank(i) THEN 0 ELSE Len(windows[i].segments))
                 + (IF i + 1 \in RoundWindows(i, Len(chunk_starts))
                       /\ ~AnsweredBlank(i + 1)
                    THEN Len(windows[i + 1].segments) ELSE 0)

\* C19: an empty or whitespace-only answer is no error: the parser returns an
\* empty result, the retry loop returns at once, the window contributes zero
\* segments and a chunked job goes on with the remaining windows.
C19_EmptyResponseIsSilence == [](C19_EmptyIsOk) /\ [][C19_JobContinues]_vars

\* C19 witness: window 0 of three contributed nothing while window 1 returned
\* two segments, and the job has gone on to window 2.
C19_Witness ==
    /\ mode = "Chunked"
    /\ Len(chunk_starts) = 3
    /\ windows[0].wpc = "joined"
    /\ windows[1].wpc = "joined"
    /\ all_segments = <<Seg(Some(1165), Some(1169), TextHello),
                        Seg(Some(580), Some(582), TextOther)>>
    /\ windows[2].wpc = "call"
    /\ pc = "join"

\* The whole text is JSON that holds a list under "segments".
WholeSegmentList ==
    IF from_str(p_content).ok
    THEN as_array(Index(from_str(p_content).val, KeySegments))
    ELSE None

\* C20 as stated: for a non-empty answer whose extracted payload is empty or
\* is not JSON, the result is the parse of the whole text when that is JSON
\* with a segment list, and else the empty result; it is never an error.
C20_NonJsonPayloadIsSilence ==
    (/\ p_pc = "parsed"
     /\ trim(p_content) # <<>>
     /\ trim(p_json) = <<>> \/ ~from_str(p_json).ok)
        => /\ p_result.ok
           /\ p_result.segments =
                 IF WholeSegmentList # None
                 THEN FilterMapSegments(WholeSegmentList[1])
                 ELSE <<>>

----------------------------------------------------------------------------
\* C21: in the transcription parse path, an extracted payload that fails to
\* parse is repaired (trailing commas, curly quotes) and parsed again, and a
\* failure is reported only when the repaired payload fails too: whenever
\* the extracted payload does not parse while its repaired form parses to an
\* object with a segment list, parse_transcription_response returns Ok.
C21_RepairedBeforeFailing ==
    p_pc = "parsed" =>
        LET raw == from_str(p_json)
            repaired == from_str(repair_json(p_json))
        IN  ( /\ trim(p_json) # <<>>
              /\ ~raw.ok
              /\ repaired.ok
              /\ IsSome(as_array(Index(repaired.val, KeySegments))) )
            => p_result.ok

----------------------------------------------------------------------------
\* The text between the first marker of a block tagged json and the first
\* fence after that marker; None when there is no such block.
TaggedBlock(content) ==
    LET start == find(content, FenceJson)
        rest == IF IsSome(start)
                THEN Slice(content, start[1] + 7, Len(content))
                ELSE <<>>
        close == find(rest, Fence)
    IN  IF IsSome(start) /\ IsSome(close)
        THEN Some(Slice(rest, 0, close[1]))
        ELSE None

\* C22: for an answer that contains a fenced block tagged json, extract_json
\* returns exactly the trimmed text between the opening marker and the
\* closing fence of that same block, whatever precedes or follows the block.
C22_TaggedBlockExtracted ==
    (p_pc \in {"extracted", "parsed"} /\ IsSome(TaggedBlock(p_content)))
        => p_json = trim(TaggedBlock(p_content)[1])

----------------------------------------------------------------------------
\* Brace-depth counting from position p (1-based) of s with depth braces
\* open: the position of the closing brace that brings the depth back to 0,
\* or 0 when there is none.
RECURSIVE BalancedClose(_, _, _)
BalancedClose(s, p, depth) ==
    IF p > Len(s) THEN 0
    ELSE IF s[p] = "{" THEN BalancedClose(s, p + 1, depth + 1)
    ELSE IF s[p] = "}"
    THEN IF depth = 1 THEN p ELSE BalancedClose(s, p + 1, depth - 1)
    ELSE BalancedClose(s, p + 1, depth)

\* The substring from the first opening brace to the brace that balances it;
\* None when there is no opening brace or it is never balanced.
BalancedObject(content) ==
    LET start == find(content, <<"{">>)
        close == IF IsSome(start)
                 THEN BalancedClose(content, start[1] + 1, 0)
                 ELSE 0
    IN  IF close > 0 THEN Some(SubSeq(content, start[1] + 1, close)) ELSE None

\* C23: for an answer without any fence, extract_json returns the substring
\* from the first opening brace to the closing brace that balances it by
\* brace-depth counting; text after the balanced object is left out even
\* when it contains closing braces.
C23_BalancedObjectExtracted ==
    ( /\ p_pc \in {"extracted", "parsed"}
      /\ ~IsSome(find(p_content, Fence))
      /\ IsSome(BalancedObject(p_content)) )
        => p_json = BalancedObject(p_content)[1]

----------------------------------------------------------------------------
\* Position p of s holds a comma that is followed only by optional
\* whitespace and then a closing brace or bracket.
TrailingComma(s, p) ==
    /\ s[p] = ","
    /\ \E q \in (p + 1)..Len(s) :
          /\ s[q] \in {"}", "]"}
          /\ \A k \in (p + 1)..(q - 1) : IsWhitespace(s[k])

TrailingCommas(s) == {p \in 1..Len(s) : TrailingComma(s, p)}

\* s without the positions in drop.
RECURSIVE Without(_, _, _)
Without(s, drop, p) ==
    IF p > Len(s) THEN <<>>
    ELSE IF p \in drop THEN Without(s, drop, p + 1)
    ELSE <<s[p]>> \o Without(s, drop, p + 1)

StraightQuotes(s) ==
    [k \in 1..Len(s) |-> IF s[k] \in {Curly.open, Curly.close} THEN "\"" ELSE s[k]]

HasCurlyQuote(s) == \E k \in 1..Len(s) : s[k] \in {Curly.open, Curly.close}

\* s is valid JSON except for trailing commas: it has at least one, and
\* deleting some of them leaves a text that parses.
ValidButForTrailingCommas(s) ==
    /\ TrailingCommas(s) # {}
    /\ \E drop \in SUBSET TrailingCommas(s) : from_str(Without(s, drop, 1)).ok

\* The repair pass removes exactly the trailing commas and straightens the
\* curly quotes; every other character is kept, in order.
RepairEffect ==
    r_pc = "repaired" =>
        r_out = StraightQuotes(Without(r_text, TrailingCommas(r_text), 1))

----------------------------------------------------------------------------
\* The phases the interface lists.
ListedPhases == {"start", "audio", "transcribe", "chunk", "chunked", "merge",
                 "compress", "encode", "analyze", "done"}

FirstEventIsStart == events # <<>> => events[1].phase = "start"

\* C25 as stated: every progress event, in every mode and on every path,
\* has one of the listed phases, and the first event of a run is start.
C25_ListedPhasesOnly ==
    /\ \A k \in 1..Len(events) : events[k].phase \in ListedPhases
    /\ FirstEventIsStart

\* C25 amended: every progress event has one of the listed phases or the
\* phase processing; processing is emitted only by a run in whole-video
\* mode, as its second event; the first event of a run is start.
C25_ListedPhasesOrProcessing ==
    /\ \A k \in 1..Len(events) :
          \/ events[k].phase \in ListedPhases
          \/ /\ events[k].phase = "processing"
             /\ k = 2
             /\ backend = "kimi_k25"
    /\ FirstEventIsStart
    /\ pc \notin {"init", "off"} => events # <<>>

\* C25 witness: a whole-video run has ended successfully with the events
\* start, processing, compress, encode, analyze, done.
C25_Witness ==
    /\ result.status = "ok"
    /\ mode = "WholeVideo"
    /\ [k \in 1..Len(events) |-> events[k].phase]
          = <<"start", "processing", "compress", "encode", "analyze", "done">>

----------------------------------------------------------------------------
QueueReturned == q_pc = "returned" /\ q_out.ok

Queue == q_out.queue

IsNewLearning(x) == x.srs_state \in {"new", "learning"}

SameGroup(x, y) == IsNewLearning(x) <=> IsNewLearning(y)

InRequestedPack(x) ==
    \/ q_args.pack_id = "all"
    \/ \E k \in 1..Len(x.pack_ids) : x.pack_ids[k] = q_args.pack_id

\* The due date of x is a date, on or before the target date.
DueByTarget(x) ==
    /\ IsSome(parse_local_date(x.due_date))
    /\ parse_local_date(x.due_date)[1] <= parse_local_date(q_args.date_local)[1]

\* The due date of x is no date at all.
DueUnknown(x) == ~IsSome(parse_local_date(x.due_date))

Occurrences(seq, x) == Cardinality({k \in 1..Len(seq) : seq[k] = x})

\* The last review time of x as a number: -1 when x was never reviewed,
\* else the digits of the time read as one number.
ReviewTime(x) ==
    LET IsDigit(c) == c \in Digits
    IN  IF x.last_reviewed_at = None THEN -1
        ELSE DecimalValue(SelectSeq(x.last_reviewed_at[1], IsDigit), 0)

\* x and y both have a due date, and x comes strictly before y: its due
\* date is earlier, or the due dates are equal and its last review is
\* earlier (never reviewed first).
StrictlyBefore(x, y) ==
    LET dx == parse_local_date(x.due_date)
        dy == parse_local_date(y.due_date)
    IN  /\ IsSome(dx)
        /\ IsSome(dy)
        /\ \/ dx[1] < dy[1]
           \/ dx[1] = dy[1] /\ ReviewTime(x) < ReviewTime(y)

\* What the queue promises about grouping, limits and order, for a given
\* notion of which items are eligible.
QueueShape(Eligible(_)) ==
    LET given == SelectSeq(q_args.all, Eligible)
        Limit(x) == IF IsNewLearning(x) THEN Max(q_args.new_limit, 0)
                    ELSE Max(q_args.review_limit, 0)
        InGroupOf(seq, x) == {k \in 1..Len(seq) : SameGroup(seq[k], x)}
    IN  /\ \A k \in 1..Len(Queue) :
              /\ Eligible(Queue[k])
              /\ Occurrences(Queue, Queue[k]) <= Occurrences(given, Queue[k])
        /\ \A j, k \in 1..Len(Queue) :
              j < k =>
                 /\ ~(~IsNewLearning(Queue[j]) /\ IsNewLearning(Queue[k]))
                 /\ SameGroup(Queue[j], Queue[k]) =>
                       ~StrictlyBefore(Queue[k], Queue[j])
        /\ \A k \in 1..Len(given) :
              LET x == given[k]
              IN  /\ Cardinality(InGroupOf(Queue, x))
                        = Min(Limit(x), Cardinality(InGroupOf(given, x)))
                  /\ Occurrences(Queue, x) < Occurrences(given, x) =>
                        \A j \in InGroupOf(Queue, x) :
                           ~StrictlyBefore(x, Queue[j])

EligibleByDate(x) == InRequestedPack(x) /\ DueByTarget(x)

EligibleByDateOrUnknown(x) ==
    InRequestedPack(x) /\ (DueByTarget(x) \/ DueUnknown(x))

----------------------------------------------------------------------------
(* The decision rule of the deduplication *)

\* The time-sorted list the deduplication walks.
Candidates == sort_by_start_time(retain_timestamped(m_in))

StartsApart(a, b) == Abs(a.start_time[1] - b.start_time[1])

\* The two conditions under which an accepted segment rejects a candidate.
Rejects(accepted, candidate) ==
    \/ OverlapDuplicate(accepted, candidate)
    \/ /\ StartsApart(accepted, candidate) < 5
       /\ RatioGtTenths(text_similarity(accepted.content, candidate.content), 5)

\* The accepted segments a candidate is compared with: those whose start
\* differs by less than 15 s, or by at most 15 s when inclusive.
InWindow(accepted, candidate, inclusive) ==
    IF inclusive THEN StartsApart(accepted, candidate) <= 15
    ELSE StartsApart(accepted, candidate) < 15

\* The accepted list after walking rest: a candidate is discarded if and only
\* if an accepted segment in the window rejects it, and the accepted segments
\* only grow.
RECURSIVE AcceptedAfter(_, _, _)
AcceptedAfter(rest, accepted, inclusive) ==
    IF rest = <<>> THEN accepted
    ELSE AcceptedAfter(Tail(rest),
             IF \E k \in 1..Len(accepted) :
                    /\ InWindow(accepted[k], Head(rest), inclusive)
                    /\ Rejects(accepted[k], Head(rest))
             THEN accepted
             ELSE Append(accepted, Head(rest)),
             inclusive)

----------------------------------------------------------------------------
(* Chunk planning for any duration above the threshold *)

\* The multiples of 570 below D, in increasing order.
MultiplesBelow(D) ==
    [k \in 1..Cardinality({n \in 0..(D \div 570) : n * 570 < D})
        |-> (k - 1) * 570]

WindowEnd(w) == windows[w].start + windows[w].dur

\* C28: for a duration D > 600 the start offsets are the multiples k*570 below
\* D in increasing order, window k is min(600, D - k*570) long, which is more
\* than 0 and at most 600, no window ends after D, and the windows together
\* cover [0, D) without a gap: the first starts at 0, each next one starts no
\* later than the one before it ends, and the last ends at D.
C28_PlannedWindows ==
    mode = "Chunked" =>
        /\ total_duration[1] > 600
        /\ chunk_starts = MultiplesBelow(total_duration[1])
        /\ DOMAIN windows = 0..(Len(chunk_starts) - 1)
        /\ \A w \in DOMAIN windows :
               /\ windows[w].start = w * 570
               /\ windows[w].start = chunk_starts[w + 1]
               /\ windows[w].dur = Min(600, total_duration[1] - w * 570)
               /\ windows[w].dur > 0
               /\ windows[w].dur <= 600
               /\ WindowEnd(w) <= total_duration[1]
               /\ w > 0 => windows[w].start <= WindowEnd(w - 1)
        /\ windows[0].start = 0
        /\ WindowEnd(Len(chunk_starts) - 1) = total_duration[1]

\* C28 witness: a job whose duration is an exact multiple of the step has
\* planned two windows, the second one ending at the end of the media, and
\* has started both.
C28_Witness ==
    /\ mode = "Chunked"
    /\ total_duration = Some(1140)
    /\ chunk_starts = <<0, 570>>
    /\ windows[1].dur = 570
    /\ InFlight(0)
    /\ InFlight(1)

----------------------------------------------------------------------------
(* A failing window and the other window of its pair *)

\* A chunked job that returned an error.
ChunkedJobFailed == mode = "Chunked" /\ pc = "done" /\ result.status = "err"

\* The windows started together with w.
SamePair(v, w) == v \div 2 = w \div 2

\* C29 (state part): when a chunked job has returned an error, every window of
\* the failing pair has returned, none was left in flight; one that succeeded
\* sliced, called the backend and deleted its clip; no window of a later pair
\* was started and no "merge" event was emitted.
C29_FailedJobState ==
    ChunkedJobFailed =>
        /\ \E w \in Windows : SamePair(w, i) /\ windows[w].wpc = "failed"
        /\ \A w \in Windows :
               /\ SamePair(w, i) =>
                      /\ windows[w].wpc \in {"done", "failed"}
                      /\ windows[w].wpc = "done" =>
                             /\ StepsOf(w, "slice") # {}
                             /\ StepsOf(w, "call") # {}
                             /\ StepsOf(w, "cleanup") # {}
                             /\ windows[w].clip \notin files
               /\ w \div 2 > i \div 2 =>
                      /\ windows[w].wpc = "idle"
                      /\ LogOf(w) = <<>>
        /\ \A k \in 1..Len(events) : events[k].phase # "merge"

\* C29 (step part): while a window of the pair is in flight the job does not
\* return, and once a chunked job has failed nothing more happens.
C29_SiblingStep ==
    /\ (pc = "join" /\ \E w \in Windows : InFlight(w)) => pc' = "join"
    /\ ChunkedJobFailed => UNCHANGED <<windows, events, files, result>>

\* C29: when one window of a concurrent pair fails the other one is not
\* cancelled, it runs to completion before the job returns the error; after
\* the pair has finished no window of a later pair is started and no "merge"
\* event is emitted.
C29_SiblingNotCancelled == [](C29_FailedJobState) /\ [][C29_SiblingStep]_vars

\* C29 witness: window 0 failed first; window 1 then went through a retry,
\* parsed its second answer and deleted its clip; the job returned the error
\* of window 0 and the third window was never started.
C29_Witness ==
    /\ ChunkedJobFailed
    /\ Len(chunk_starts) >= 3
    /\ returned = <<0, 1>>
    /\ windows[0].wpc = "failed"
    /\ windows[1].wpc = "done"
    /\ StepsOf(1, "sleep") # {}
    /\ windows[1].clip \notin files
    /\ windows[2].wpc = "idle"
    /\ result.error = windows[0].error

----------------------------------------------------------------------------
(* The whole-video mode makes one backend call *)

CompressedFile == <<"compressed", 0>>

AnalyzeEmitted == \E k \in 1..Len(events) : events[k].phase = "analyze"

\* C30 (state part): in a whole-video run at most one backend call is made,
\* and exactly one once a run that reached the analysis has returned; no
\* window of the retry loop exists; while the call is awaited and after it
\* the compressed file is not on disk; a run that returned Ok made the call.
C30_SingleCallState ==
    mode = "WholeVideo" =>
        /\ kimi_calls <= 1
        /\ DOMAIN windows = {}
        /\ pc = "kimi_chat" =>
               /\ kimi_calls = 0
               /\ AnalyzeEmitted
               /\ CompressedFile \notin files
        /\ kimi_calls = 1 =>
               /\ pc = "done"
               /\ CompressedFile \notin files
        /\ (pc = "done" /\ AnalyzeEmitted) => kimi_calls = 1
        /\ (pc = "done" /\ result.status = "ok") => kimi_calls = 1

\* C30 (step part): the step that follows the backend call ends the run; it
\* is the only step that counts a call, and no call follows a returned run.
C30_SingleCallStep ==
    /\ (pc = "kimi_chat" /\ pc' # pc) =>
           /\ pc' = "done"
           /\ kimi_calls' = kimi_calls + 1
           /\ result'.status \in {"ok", "err"}
           /\ result'.status = "err" =>
                  /\ result'.error.kind \in {"chat_err", "parse_failed"}
                  /\ events' = events
    /\ pc = "kimi_chat" => pc' # "kimi_chat"
    /\ kimi_calls' # kimi_calls => pc = "kimi_chat"

\* C30: a whole-video run makes exactly one backend call; the retry loop is
\* not used, so a backend error or a parse failure of the one response fails
\* the run at once, with no retry and no delay; the compressed file has been
\* deleted before the call is issued.
C30_WholeVideoSingleCall ==
    [](C30_SingleCallState) /\ [][C30_SingleCallStep]_vars

\* C30 witness: a whole-video run whose only response did not parse has
\* returned that parse failure after one call, the compressed file gone.
C30_Witness ==
    /\ mode = "WholeVideo"
    /\ pc = "done"
    /\ kimi_calls = 1
    /\ result.status = "err"
    /\ result.error.kind = "parse_failed"
    /\ CompressedFile \notin files
    /\ AnalyzeEmitted


====
